---- MODULE Spec2Model ----
(***************************************************************************)
(* Prototype subsystem of the cloud-infrastructure API: the resource       *)
(* objects (app/domain/products), the clone operation                      *)
(* (CloneableResource.clone and its per-kind overrides), the singleton     *)
(* PrototypeManager registry, the in-memory VMRepository and the clone     *)
(* endpoint of prototype_controller.                                       *)
(*                                                                         *)
(* Python objects are modelled as a heap: objs is the sequence of resource *)
(* objects ever constructed and an object is referred to by its index.     *)
(* The dictionaries stored inside an ApplicationLoadBalancer's listeners   *)
(* list live in a second heap, entries, and the list holds their           *)
(* addresses, so that sharing between two lists is visible.                *)
(* uuid4().hex[:8] is a fresh number drawn from the counter nextId, and    *)
(* datetime.now() reads the non-decreasing clock now.                      *)
(***************************************************************************)
EXTENDS Integers, Sequences, FiniteSets, TLC

VARIABLES objs, entries, nextId, now, prototypes, metadata, categories,
          products_store, _store, returned, last, threads, manager_class

vars == <<objs, entries, nextId, now, prototypes, metadata, categories,
          products_store, _store, returned, last, threads, manager_class>>

(* ------------------------------ bounds -------------------------------- *)
MaxObjs == 3
MaxClock == 1
MaxListeners == 1
MaxRegistrations == 2
MaxListed == 3
MaxThreads == 2
MaxTargets == 2
MaxGroups == 2

(* ------------------------------ domains ------------------------------- *)
AwsKinds == {"EC2Instance", "RDSDatabase", "ApplicationLoadBalancer",
             "S3Storage", "EC2NetworkInterface"}

GcpKinds == {"ComputeEngineInstance", "CloudSQLDatabase",
             "CloudLoadBalancer", "CloudStorage"}

OnPremKinds == {"OnPremiseVirtualMachine", "OnPremiseDatabase",
                "OnPremiseLoadBalancer", "OnPremiseStorage"}

Kinds == AwsKinds \cup GcpKinds \cup OnPremKinds

ResourceStatus == {"creating", "running", "stopped", "deleting", "error"}

PrototypeCategory == {"vm", "database", "loadbalancer", "storage", "network", "general"}

\* the categories registrations are made under
RegisterCategories == {"vm", "database"}

ResourceNames == {"web"}
PrototypeNames == {"web-template"}
NewNames == {"", "web-prod-01"}
\* description: str = ""
DefaultDescription == ""
\* category: str = "general"
DefaultCategory == "general"
TagKeys == {"env"}
TagVals == {"dev", "prod"}
Ports == {80, 443}

None == <<>>
Some(x) == <<x>>

NoTags == [k \in {} |-> ""]
RegisterTags == {NoTags}
CustomTags == {NoTags, [k \in TagKeys |-> "prod"]}

\* an update that keeps the value of a key the dictionary already has
TagsUpdate_KeepOld(a, b) ==
    [k \in (DOMAIN a) \cup (DOMAIN b) |-> IF k \in DOMAIN a THEN a[k] ELSE b[k]]

\* dict.update
TagsUpdate(a, b) ==
    [k \in (DOMAIN a) \cup (DOMAIN b) |-> IF k \in DOMAIN b THEN b[k] ELSE a[k]]

\* the part of a resource id before the first "-" (resource_id.split('-')[0])
Prefix(kind) ==
    CASE kind = "EC2Instance" -> "i"
      [] kind = "RDSDatabase" -> "db"
      [] kind = "ApplicationLoadBalancer" -> "alb"
      [] kind = "S3Storage" -> "s3"
      [] kind = "EC2NetworkInterface" -> "eni"
      [] kind \in GcpKinds -> "gcp"
      [] OTHER -> "onprem"

Objs == 1..Len(objs)

\* what the last call did: the operation, how it ended, the object it was
\* applied to, the prototype id involved, the object it returned and the
\* HTTP status of an endpoint
Result(op, outcome, cause, src, pid, ret, http) ==
    [op |-> op, outcome |-> outcome, cause |-> cause, src |-> src,
     pid |-> pid, ret |-> ret, http |-> http]


(* --------------------------- construction ----------------------------- *)
\* CloudResource.__init__ on top of CloneableResource.__init__, followed by
\* the attributes the concrete constructors add.  rid and pid are the two
\* uuid draws (resource id first, prototype id second).
NewResource(kind, name, rid, pid, t) ==
    [kind |-> kind,
     resource_id |-> <<Prefix(kind), rid>>,
     prototype_id |-> <<"proto", pid>>,
     is_prototype |-> FALSE,
     cloned_from |-> None,
     clone_count |-> 0,
     created_at |-> t,
     last_cloned_at |-> None,
     name |-> name,
     status |-> "creating",
     tags |-> NoTags,
     security_groups |-> <<>>,
     private_ip |-> "",
     public_ip |-> "",
     endpoint |-> IF kind = "RDSDatabase" THEN <<name, "rds">> ELSE <<>>,
     dns_name |-> IF kind = "ApplicationLoadBalancer" THEN <<name, rid, "elb">> ELSE <<>>,
     targets |-> <<>>,
     listeners |-> <<>>,
     objects |-> {},
     bucket_name |-> IF kind = "S3Storage" THEN name ELSE ""]

\* datetime.now() never goes back
Tick ==
    /\ now < MaxClock
    /\ now' = now + 1
    /\ UNCHANGED <<manager_class, threads, objs, entries, nextId, prototypes, metadata, categories,
                   products_store, _store, returned, last>>

(* ------------------- attribute changes on a resource ------------------ *)
\* The lifecycle status is a plain attribute; the enumeration lists the
\* values it takes.
SetStatus(o, s) ==
    /\ o \in Objs
    /\ objs[o].status # s
    /\ objs' = [objs EXCEPT ![o].status = s]
    /\ last' = Result("set_status", "ok", "", 0, None, 0, 0)
    /\ UNCHANGED <<manager_class, threads, entries, nextId, now, prototypes, metadata, categories,
                   products_store, _store, returned>>

\* resource.tags[k] = v
SetTag(o, k, v) ==
    /\ o \in Objs
    /\ objs' = [objs EXCEPT ![o].tags = TagsUpdate(@, [x \in {k} |-> v])]
    /\ objs' # objs
    /\ last' = Result("set_tag", "ok", "", 0, None, 0, 0)
    /\ UNCHANGED <<manager_class, threads, entries, nextId, now, prototypes, metadata, categories,
                   products_store, _store, returned>>

\* lb.listeners.append({"port": p}): a new dictionary owned by the list of o
AddListener(o, p) ==
    /\ o \in Objs
    /\ objs[o].kind = "ApplicationLoadBalancer"
    /\ Len(objs[o].listeners) < MaxListeners
    /\ LET a == <<o, Len(objs[o].listeners) + 1>> IN
        /\ objs' = [objs EXCEPT ![o].listeners = Append(@, a)]
        /\ entries' = [x \in (DOMAIN entries) \cup {a} |->
                          IF x = a THEN [port |-> p] ELSE entries[x]]
    /\ last' = Result("add_listener", "ok", "", 0, None, 0, 0)
    /\ UNCHANGED <<manager_class, threads, nextId, now, prototypes, metadata, categories,
                   products_store, _store, returned>>

\* lb.listeners[i]["port"] = p: a write into the dictionary the list refers to
SetListenerPort(o, i, p) ==
    /\ o \in Objs
    /\ i \in 1..Len(objs[o].listeners)
    /\ entries[objs[o].listeners[i]].port # p
    /\ entries' = [entries EXCEPT ![objs[o].listeners[i]].port = p]
    /\ last' = Result("set_listener_port", "ok", "", 0, None, 0, 0)
    /\ UNCHANGED <<manager_class, threads, objs, nextId, now, prototypes, metadata, categories,
                   products_store, _store, returned>>

\* the addresses a resource is given
Addresses == {"10.0.0.5", "54.1.2.3"}

\* vm.private_ip = a; vm.public_ip = b on an EC2 instance (plain attributes)
SetAddresses(o, a, b) ==
    /\ o \in Objs
    /\ objs[o].kind = "EC2Instance"
    /\ objs' = [objs EXCEPT ![o].private_ip = a, ![o].public_ip = b]
    /\ objs' # objs
    /\ last' = Result("set_addresses", "ok", "", 0, None, 0, 0)
    /\ UNCHANGED <<manager_class, threads, entries, nextId, now, prototypes, metadata, categories,
                   products_store, _store, returned>>

\* EC2NetworkInterface.assign_public_ip: an address made of random octets
assign_public_ip(o, ip) ==
    /\ o \in Objs
    /\ objs[o].kind = "EC2NetworkInterface"
    /\ objs' = [objs EXCEPT ![o].public_ip = ip]
    /\ objs' # objs
    /\ last' = Result("assign_public_ip", "ok", "", 0, None, 0, 0)
    /\ UNCHANGED <<manager_class, threads, entries, nextId, now, prototypes, metadata, categories,
                   products_store, _store, returned>>

\* Load balancers: targets is the target collection of the kind (targets of
\* an ApplicationLoadBalancer, backend_services of a CloudLoadBalancer,
\* backend_servers of an OnPremiseLoadBalancer).
LoadBalancerKinds == {"ApplicationLoadBalancer", "CloudLoadBalancer",
                      "OnPremiseLoadBalancer"}

TargetIds == {"i-1", "i-2"}

\* add_target: the ALB appends an id it does not hold yet, the other two
\* append always
add_target(o, target_id) ==
    /\ o \in Objs
    /\ objs[o].kind \in LoadBalancerKinds
    /\ Len(objs[o].targets) < MaxTargets
    /\ objs' = [objs EXCEPT ![o].targets =
                   IF objs[o].kind = "ApplicationLoadBalancer"
                      /\ \E i \in 1..Len(@) : @[i] = target_id
                   THEN @ ELSE Append(@, target_id)]
    /\ last' = Result("add_target", "ok", "", 0, None, 0, 0)
    /\ UNCHANGED <<manager_class, threads, entries, nextId, now, prototypes, metadata, categories,
                   products_store, _store, returned>>

\* list.remove(x): the list without the first occurrence of x
RemoveFirst(seq, x) ==
    LET i == CHOOSE k \in 1..Len(seq) : seq[k] = x /\ \A j \in 1..(k - 1) : seq[j] # x
    IN SubSeq(seq, 1, i - 1) \o SubSeq(seq, i + 1, Len(seq))

\* remove_target: the ALB removes the id when it holds it, the other two
\* rebuild the list without the entries of that id
remove_target(o, target_id) ==
    /\ o \in Objs
    /\ objs[o].kind \in LoadBalancerKinds
    /\ objs' = [objs EXCEPT ![o].targets =
                   IF objs[o].kind = "ApplicationLoadBalancer"
                   THEN IF \E i \in 1..Len(@) : @[i] = target_id
                        THEN RemoveFirst(@, target_id) ELSE @
                   ELSE SelectSeq(@, LAMBDA x : x # target_id)]
    /\ last' = Result("remove_target", "ok", "", 0, None, 0, 0)
    /\ UNCHANGED <<manager_class, threads, entries, nextId, now, prototypes, metadata, categories,
                   products_store, _store, returned>>

\* the security groups an EC2 instance is put in
SecurityGroupIds == {<<"sg", "web">>, <<"sg", "db">>}

\* vm.security_groups.append(sg) on an EC2 instance (a plain list attribute)
add_security_group(o, sg) ==
    /\ o \in Objs
    /\ objs[o].kind = "EC2Instance"
    /\ Len(objs[o].security_groups) < MaxGroups
    /\ objs' = [objs EXCEPT ![o].security_groups = Append(@, sg)]
    /\ last' = Result("add_security_group", "ok", "", 0, None, 0, 0)
    /\ UNCHANGED <<manager_class, threads, entries, nextId, now, prototypes, metadata, categories,
                   products_store, _store, returned>>

\* EC2NetworkInterface.configure_security_group: appends an id made from a
\* uuid draw
configure_security_group(o) ==
    /\ o \in Objs
    /\ objs[o].kind = "EC2NetworkInterface"
    /\ Len(objs[o].security_groups) < MaxGroups
    /\ objs' = [objs EXCEPT ![o].security_groups = Append(@, <<"sg", nextId>>)]
    /\ nextId' = nextId + 1
    /\ last' = Result("configure_security_group", "ok", "", 0, None, 0, 0)
    /\ UNCHANGED <<manager_class, threads, entries, now, prototypes, metadata, categories,
                   products_store, _store, returned>>

\* the keys files are uploaded under
ObjectKeys == {"a.txt", "b.txt"}

\* S3Storage.upload_file: self.objects[key] = {...}, the same description
\* for every key
upload_file(o, key) ==
    /\ o \in Objs
    /\ objs[o].kind = "S3Storage"
    /\ key \notin objs[o].objects
    /\ objs' = [objs EXCEPT ![o].objects = @ \cup {key}]
    /\ last' = Result("upload_file", "ok", "", 0, None, 0, 0)
    /\ UNCHANGED <<manager_class, threads, entries, nextId, now, prototypes, metadata,
                   categories, products_store, _store, returned>>

\* what an observer reads through o.listeners
ListenerView(os, es, o) ==
    [i \in 1..Len(os[o].listeners) |-> es[os[o].listeners[i]]]

(* --------------------------- clone operation -------------------------- *)
\* CloudResource.can_be_cloned
can_be_cloned(r) == r.status \in {"running", "stopped", "creating"}

\* The GCP and on-premise overrides start with self._prepare_for_cloning(),
\* a method no class defines: the call raises AttributeError before anything
\* is copied or changed.
CloneRaises(r) == r.kind \in GcpKinds \cup OnPremKinds

\* copy.deepcopy(self) for the object that will sit at index c: every nested
\* dictionary is duplicated and the copy's list refers to the duplicates
DeepCopyObj(r, c) ==
    [r EXCEPT !.listeners = [i \in 1..Len(r.listeners) |-> <<c, i>>]]

DeepCopyEntries(r, c, es) ==
    [a \in (DOMAIN es) \cup {<<c, i>> : i \in 1..Len(r.listeners)} |->
        IF a \in DOMAIN es THEN es[a] ELSE es[r.listeners[a[2]]]]

\* clone() that leaves the identifiers of the deep copy as they were copied
CloneableResource_clone_KeepIds(r, c, rid, pid, t) ==
    [DeepCopyObj(r, c) EXCEPT
        !.is_prototype = FALSE,
        !.cloned_from = r.prototype_id,
        !.clone_count = 0,
        !.created_at = t,
        !.last_cloned_at = None]

\* clone() that forgets to reset the counters of the deep copy
CloneableResource_clone_KeepCount(r, c, rid, pid, t) ==
    [DeepCopyObj(r, c) EXCEPT
        !.resource_id = <<r.resource_id[1], rid>>,
        !.prototype_id = <<"proto", pid>>,
        !.is_prototype = FALSE,
        !.cloned_from = r.prototype_id,
        !.created_at = t]

\* clone() that forgets to clear the is_prototype flag of the deep copy
CloneableResource_clone_KeepFlag(r, c, rid, pid, t) ==
    [DeepCopyObj(r, c) EXCEPT
        !.resource_id = <<r.resource_id[1], rid>>,
        !.prototype_id = <<"proto", pid>>,
        !.cloned_from = r.prototype_id,
        !.clone_count = 0,
        !.created_at = t,
        !.last_cloned_at = None]

\* CloneableResource.clone up to the metadata rewrite of the copy
CloneableResource_clone(r, c, rid, pid, t) ==
    [DeepCopyObj(r, c) EXCEPT
        !.resource_id = <<r.resource_id[1], rid>>,
        !.prototype_id = <<"proto", pid>>,
        !.is_prototype = FALSE,
        !.cloned_from = r.prototype_id,
        !.clone_count = 0,
        !.created_at = t,
        !.last_cloned_at = None]

\* the update of the original without the counter increment
SourceAfterClone_NoCount(r, t) ==
    [r EXCEPT !.last_cloned_at = Some(t)]

\* CloneableResource.clone, the update of the original
SourceAfterClone(r, t) ==
    [r EXCEPT !.clone_count = @ + 1, !.last_cloned_at = Some(t)]

\* the AWS part of clone() with the security groups of the copy emptied, as
\* its addresses are
KindClone_NoGroups(r, cloned) ==
    CASE r.kind = "EC2Instance" ->
            [cloned EXCEPT !.private_ip = "", !.public_ip = "",
                           !.security_groups = <<>>]
      [] r.kind = "RDSDatabase" ->
            [cloned EXCEPT !.endpoint = <<cloned.name, "rds">>]
      [] r.kind = "ApplicationLoadBalancer" ->
            [cloned EXCEPT !.targets = <<>>,
                           !.listeners = r.listeners,
                           !.dns_name = <<cloned.name, cloned.resource_id[2], "elb">>]
      [] r.kind = "S3Storage" ->
            [cloned EXCEPT !.objects = {}, !.bucket_name = cloned.name]
      [] r.kind = "EC2NetworkInterface" ->
            [cloned EXCEPT !.public_ip = "", !.security_groups = <<>>]
      [] OTHER -> cloned

\* the ALB part of clone() without the reset of the targets
KindClone_KeepTargets(r, cloned) ==
    CASE r.kind = "EC2Instance" ->
            [cloned EXCEPT !.private_ip = "", !.public_ip = "",
                           !.security_groups = r.security_groups]
      [] r.kind = "RDSDatabase" ->
            [cloned EXCEPT !.endpoint = <<cloned.name, "rds">>]
      [] r.kind = "ApplicationLoadBalancer" ->
            [cloned EXCEPT !.listeners = r.listeners,
                           !.dns_name = <<cloned.name, cloned.resource_id[2], "elb">>]
      [] r.kind = "S3Storage" ->
            [cloned EXCEPT !.objects = {}, !.bucket_name = cloned.name]
      [] r.kind = "EC2NetworkInterface" ->
            [cloned EXCEPT !.public_ip = "",
                           !.security_groups = r.security_groups]
      [] OTHER -> cloned

\* the part of clone() the AWS classes add after super().clone()
KindClone(r, cloned) ==
    CASE r.kind = "EC2Instance" ->
            [cloned EXCEPT !.private_ip = "", !.public_ip = "",
                           !.security_groups = r.security_groups]
      [] r.kind = "RDSDatabase" ->
            [cloned EXCEPT !.endpoint = <<cloned.name, "rds">>]
      [] r.kind = "ApplicationLoadBalancer" ->
            [cloned EXCEPT !.targets = <<>>,
                           !.listeners = r.listeners,
                           !.dns_name = <<cloned.name, cloned.resource_id[2], "elb">>]
      [] r.kind = "S3Storage" ->
            [cloned EXCEPT !.objects = {}, !.bucket_name = cloned.name]
      [] r.kind = "EC2NetworkInterface" ->
            [cloned EXCEPT !.public_ip = "",
                           !.security_groups = r.security_groups]
      [] OTHER -> cloned

\* the object resource.clone() returns
Cloned(o) ==
    KindClone(objs[o],
              CloneableResource_clone(objs[o], Len(objs) + 1, nextId, nextId + 1, now))

\* dictionaries no list refers to any more are reclaimed
Reachable(os) == UNION {{os[i].listeners[j] : j \in 1..Len(os[i].listeners)} :
                        i \in 1..Len(os)}

Collect(os, es) == [a \in (DOMAIN es) \cap Reachable(os) |-> es[a]]

\* heap after o.clone() returned cloned
ObjsAfterClone(o, cloned) ==
    Append([objs EXCEPT ![o] = SourceAfterClone(objs[o], now)], cloned)

EntriesAfterClone(o, os) ==
    Collect(os, DeepCopyEntries(objs[o], Len(objs) + 1, entries))

\* resource.clone() called directly on a resource object
clone(o) ==
    /\ o \in Objs
    /\ IF CloneRaises(objs[o])
       THEN /\ last' = Result("clone", "AttributeError", "", o, None, 0, 0)
            /\ UNCHANGED <<objs, entries, nextId>>
       ELSE /\ Len(objs) < MaxObjs
            /\ objs' = ObjsAfterClone(o, Cloned(o))
            /\ entries' = EntriesAfterClone(o, objs')
            /\ nextId' = nextId + 2
            /\ last' = Result("clone", "ok", "", o, None, Len(objs) + 1, 0)
    /\ UNCHANGED <<manager_class, threads, now, prototypes, metadata, categories, products_store, _store,
                   returned>>


(* ---------------------------- the registry --------------------------- *)
\* the ids that requests name: every id register_prototype has returned, and
\* one id it never returned
UnknownId == <<"proto", 0>>
PidInputs == (DOMAIN returned) \cup {UnknownId}

RegisteredIds == {prototypes[i].pid : i \in 1..Len(prototypes)}
MetadataIds == {metadata[i].pid : i \in 1..Len(metadata)}

\* PrototypeManager.get_prototype: the object registered under pid, 0 for None
get_prototype(pid) ==
    IF pid \in RegisteredIds
    THEN (CHOOSE i \in 1..Len(prototypes) : prototypes[i].pid = pid)
    ELSE 0

ProtoObj(pid) == prototypes[get_prototype(pid)].obj

MetaOf(pid) == metadata[CHOOSE i \in 1..Len(metadata) : metadata[i].pid = pid]

\* CloneableResource.mark_as_prototype
mark_as_prototype(r, prototype_name) ==
    [r EXCEPT !.is_prototype = TRUE,
              !.name = IF prototype_name # "" THEN prototype_name ELSE @]

\* PrototypeMetadata.__init__
PrototypeMetadata(pid, name, description, category, tags, t) ==
    [pid |-> pid, name |-> name, description |-> description,
     category |-> category, tags |-> tags,
     created_at |-> t, usage_count |-> 0]

CategoryNames == {categories[i].category : i \in 1..Len(categories)}

\* the id put at the front of the category's list instead of its end
CategoriesAfterRegister_Front(category, pid) ==
    IF category \in CategoryNames
    THEN [i \in 1..Len(categories) |->
            IF categories[i].category = category
            THEN [categories[i] EXCEPT !.ids = <<pid>> \o @]
            ELSE categories[i]]
    ELSE Append(categories, [category |-> category, ids |-> <<pid>>])

\* self._categories[category].append(prototype_id), the list created on first use
CategoriesAfterRegister(category, pid) ==
    IF category \in CategoryNames
    THEN [i \in 1..Len(categories) |->
            IF categories[i].category = category
            THEN [categories[i] EXCEPT !.ids = Append(@, pid)]
            ELSE categories[i]]
    ELSE Append(categories, [category |-> category, ids |-> <<pid>>])

\* fewer than n ids have been handed out: the cap under which a specification
\* takes registration steps
RegisteredFewerThan(n) == Cardinality(DOMAIN returned) < n

register_prototype(o, name, description, category, tags) ==
    /\ o \in Objs
    /\ LET pid == <<"proto", nextId>> IN
        /\ nextId' = nextId + 1
        /\ objs' = [objs EXCEPT ![o] = mark_as_prototype(@, name)]
        /\ prototypes' = Append(prototypes, [pid |-> pid, obj |-> o])
        /\ metadata' = Append(metadata, PrototypeMetadata(pid, name, description, category, tags, now))
        /\ categories' = CategoriesAfterRegister(category, pid)
        /\ returned' = [x \in (DOMAIN returned) \cup {pid} |->
                           IF x = pid THEN 0 ELSE returned[x]]
        /\ last' = Result("register_prototype", "ok", "", o, pid, 0, 0)
    /\ UNCHANGED <<manager_class, threads, entries, now, products_store, _store>>

\* how PrototypeManager.clone_prototype ends for pid
CloneOutcome(pid) ==
    IF get_prototype(pid) = 0 THEN "not_found"
    ELSE IF ~can_be_cloned(objs[ProtoObj(pid)]) THEN "not_cloneable"
    ELSE IF CloneRaises(objs[ProtoObj(pid)]) THEN "raises"
    ELSE "cloned"

\* the object clone_prototype returns: the clone, renamed when a name is given
ClonedByManager(pid, new_name) ==
    LET c == Cloned(ProtoObj(pid)) IN
    IF new_name # "" THEN [c EXCEPT !.name = new_name] ELSE c

\* the usage counter bumped on every entry instead of the one of pid
MetadataAfterClone_All(pid) ==
    [i \in 1..Len(metadata) |-> [metadata[i] EXCEPT !.usage_count = @ + 1]]

\* self._metadata[prototype_id].usage_count += 1
MetadataAfterClone(pid) ==
    [i \in 1..Len(metadata) |->
        IF metadata[i].pid = pid
        THEN [metadata[i] EXCEPT !.usage_count = @ + 1]
        ELSE metadata[i]]

ReturnedAfterClone(pid) == [returned EXCEPT ![pid] = @ + 1]

\* clone_prototype with the usage counter bumped before clone() is called
clone_prototype_CountFirst(pid, new_name) ==
    /\ LET out == CloneOutcome(pid) IN
       CASE out = "not_found" ->
              /\ last' = Result("clone_prototype", "None", "unknown", 0, pid, 0, 0)
              /\ UNCHANGED <<objs, entries, nextId, metadata, returned>>
         [] out = "not_cloneable" ->
              /\ last' = Result("clone_prototype", "None", "not_cloneable",
                                ProtoObj(pid), pid, 0, 0)
              /\ UNCHANGED <<objs, entries, nextId, metadata, returned>>
         [] out = "raises" ->
              /\ last' = Result("clone_prototype", "AttributeError", "",
                                ProtoObj(pid), pid, 0, 0)
              /\ metadata' = MetadataAfterClone(pid)
              /\ UNCHANGED <<objs, entries, nextId, returned>>
         [] OTHER ->
              /\ Len(objs) < MaxObjs
              /\ objs' = ObjsAfterClone(ProtoObj(pid), ClonedByManager(pid, new_name))
              /\ entries' = EntriesAfterClone(ProtoObj(pid), objs')
              /\ nextId' = nextId + 2
              /\ metadata' = MetadataAfterClone(pid)
              /\ returned' = ReturnedAfterClone(pid)
              /\ last' = Result("clone_prototype", "ok", "", ProtoObj(pid), pid,
                                Len(objs) + 1, 0)
    /\ UNCHANGED <<manager_class, threads, now, prototypes, categories, products_store, _store>>

\* PrototypeManager.clone_prototype called on the manager
clone_prototype(pid, new_name) ==
    /\ LET out == CloneOutcome(pid) IN
       CASE out = "not_found" ->
              /\ last' = Result("clone_prototype", "None", "unknown", 0, pid, 0, 0)
              /\ UNCHANGED <<objs, entries, nextId, metadata, returned>>
         [] out = "not_cloneable" ->
              /\ last' = Result("clone_prototype", "None", "not_cloneable",
                                ProtoObj(pid), pid, 0, 0)
              /\ UNCHANGED <<objs, entries, nextId, metadata, returned>>
         [] out = "raises" ->
              /\ last' = Result("clone_prototype", "AttributeError", "",
                                ProtoObj(pid), pid, 0, 0)
              /\ UNCHANGED <<objs, entries, nextId, metadata, returned>>
         [] OTHER ->
              /\ Len(objs) < MaxObjs
              /\ objs' = ObjsAfterClone(ProtoObj(pid), ClonedByManager(pid, new_name))
              /\ entries' = EntriesAfterClone(ProtoObj(pid), objs')
              /\ nextId' = nextId + 2
              /\ metadata' = MetadataAfterClone(pid)
              /\ returned' = ReturnedAfterClone(pid)
              /\ last' = Result("clone_prototype", "ok", "", ProtoObj(pid), pid,
                                Len(objs) + 1, 0)
    /\ UNCHANGED <<manager_class, threads, now, prototypes, categories, products_store, _store>>

(* ------------- clone_prototype run by request-handling threads -------- *)
\* PrototypeManager takes no lock.  A thread runs clone_prototype statement
\* by statement and another thread may run between any two of them; an
\* augmented assignment (x.n += 1) is a read of the attribute followed by a
\* write of the value read plus one.
Threads == 1..MaxThreads

\* a thread's position in clone_prototype and its local variables: the id
\* and name it was called with, prototype, cloned, and the value read by
\* the augmented assignment it is in
IdleThread ==
    [pc |-> "idle", pid |-> None, new_name |-> "", prototype |-> 0, cloned |-> 0,
     loaded |-> 0]

\* lines 115-122: the lookup and the can_be_cloned() check
thread_call(t, pid, new_name) ==
    /\ threads[t].pc = "idle"
    /\ LET out == CloneOutcome(pid) IN
       CASE out = "not_found" ->
              /\ threads' = [threads EXCEPT ![t].pc = "done", ![t].pid = pid]
              /\ last' = Result("clone_prototype", "None", "unknown", 0, pid, 0, 0)
         [] out = "not_cloneable" ->
              /\ threads' = [threads EXCEPT ![t].pc = "done", ![t].pid = pid]
              /\ last' = Result("clone_prototype", "None", "not_cloneable",
                                ProtoObj(pid), pid, 0, 0)
         [] out = "raises" ->
              /\ threads' = [threads EXCEPT ![t].pc = "done", ![t].pid = pid]
              /\ last' = Result("clone_prototype", "AttributeError", "",
                                ProtoObj(pid), pid, 0, 0)
         [] OTHER ->
              /\ threads' = [threads EXCEPT ![t] =
                                [IdleThread EXCEPT !.pc = "deepcopy", !.pid = pid,
                                                   !.new_name = new_name,
                                                   !.prototype = ProtoObj(pid)]]
              /\ UNCHANGED last
    /\ UNCHANGED <<manager_class, objs, entries, nextId, now, prototypes, metadata, categories,
                   products_store, _store, returned>>

\* prototype.clone() up to the rewrite of the copy (prototype.py:69-78) with
\* what the kind adds to the copy, and the rename of lines 128-129: all of it
\* writes to the copy only
thread_deepcopy(t) ==
    /\ threads[t].pc = "deepcopy"
    /\ Len(objs) < MaxObjs
    /\ LET c == Cloned(threads[t].prototype)
           named == IF threads[t].new_name # ""
                    THEN [c EXCEPT !.name = threads[t].new_name] ELSE c
       IN objs' = Append(objs, named)
    /\ entries' = Collect(objs', DeepCopyEntries(objs[threads[t].prototype],
                                                 Len(objs) + 1, entries))
    /\ nextId' = nextId + 2
    /\ threads' = [threads EXCEPT ![t].pc = "load_clone_count",
                                  ![t].cloned = Len(objs) + 1]
    /\ UNCHANGED <<manager_class, now, prototypes, metadata, categories, products_store, _store,
                   returned, last>>

\* self.clone_count += 1 (prototype.py:81), the read
thread_load_clone_count(t) ==
    /\ threads[t].pc = "load_clone_count"
    /\ threads' = [threads EXCEPT ![t].pc = "store_clone_count",
                                  ![t].loaded = objs[threads[t].prototype].clone_count]
    /\ UNCHANGED <<manager_class, objs, entries, nextId, now, prototypes, metadata, categories,
                   products_store, _store, returned, last>>

\* self.clone_count += 1, the write, and self.last_cloned_at = now (line 82)
thread_store_clone_count(t) ==
    /\ threads[t].pc = "store_clone_count"
    /\ objs' = [objs EXCEPT ![threads[t].prototype].clone_count = threads[t].loaded + 1,
                            ![threads[t].prototype].last_cloned_at = Some(now)]
    /\ threads' = [threads EXCEPT ![t].pc = "load_usage_count"]
    /\ UNCHANGED <<manager_class, entries, nextId, now, prototypes, metadata, categories,
                   products_store, _store, returned, last>>

\* the value the thread writes back as usage_count
StoredUsage(loaded) == loaded + 1

\* lines 132-133: the membership test and the read of usage_count
thread_load_usage_count(t) ==
    /\ threads[t].pc = "load_usage_count"
    /\ IF threads[t].pid \in MetadataIds
       THEN /\ threads' = [threads EXCEPT ![t].pc = "store_usage_count",
                                          ![t].loaded = MetaOf(threads[t].pid).usage_count]
            /\ UNCHANGED <<returned, last>>
       ELSE /\ threads' = [threads EXCEPT ![t].pc = "done"]
            /\ returned' = ReturnedAfterClone(threads[t].pid)
            /\ last' = Result("clone_prototype", "ok", "", threads[t].prototype,
                              threads[t].pid, threads[t].cloned, 0)
    /\ UNCHANGED <<manager_class, objs, entries, nextId, now, prototypes, metadata, categories,
                   products_store, _store>>

\* line 133, the write of usage_count, and the return of the clone
thread_store_usage_count(t) ==
    /\ threads[t].pc = "store_usage_count"
    /\ metadata' = [i \in 1..Len(metadata) |->
                       IF metadata[i].pid = threads[t].pid
                       THEN [metadata[i] EXCEPT
                               !.usage_count = StoredUsage(threads[t].loaded)]
                       ELSE metadata[i]]
    /\ threads' = [threads EXCEPT ![t].pc = "done"]
    /\ returned' = ReturnedAfterClone(threads[t].pid)
    /\ last' = Result("clone_prototype", "ok", "", threads[t].prototype,
                      threads[t].pid, threads[t].cloned, 0)
    /\ UNCHANGED <<manager_class, objs, entries, nextId, now, prototypes, categories,
                   products_store, _store>>

\* VMRepository.store_resource
store_resource(store, resource_id, o) ==
    [x \in (DOMAIN store) \cup {resource_id} |->
        IF x = resource_id THEN o ELSE store[x]]

\* POST /prototype/clone/{prototype_id} of prototype_controller
api_clone_prototype(prototype_id, body_id, new_name, custom_tags) ==
    /\ LET out == CloneOutcome(prototype_id) IN
       CASE prototype_id # body_id ->
              /\ last' = Result("api_clone_prototype", "HTTPException", "mismatch",
                                0, prototype_id, 0, 400)
              /\ UNCHANGED <<objs, entries, nextId, metadata, returned, products_store>>
         [] out = "not_found" ->
              /\ last' = Result("api_clone_prototype", "HTTPException", "unknown",
                                0, prototype_id, 0, 404)
              /\ UNCHANGED <<objs, entries, nextId, metadata, returned, products_store>>
         [] out = "not_cloneable" ->
              /\ last' = Result("api_clone_prototype", "HTTPException", "not_cloneable",
                                ProtoObj(prototype_id), prototype_id, 0, 404)
              /\ UNCHANGED <<objs, entries, nextId, metadata, returned, products_store>>
         [] out = "raises" ->
              /\ last' = Result("api_clone_prototype", "HTTPException", "AttributeError",
                                ProtoObj(prototype_id), prototype_id, 0, 500)
              /\ UNCHANGED <<objs, entries, nextId, metadata, returned, products_store>>
         [] OTHER ->
              /\ Len(objs) < MaxObjs
              /\ LET c == ClonedByManager(prototype_id, new_name)
                     tagged == IF custom_tags # NoTags
                               THEN [c EXCEPT !.tags = TagsUpdate(@, custom_tags)]
                               ELSE c
                 IN /\ objs' = ObjsAfterClone(ProtoObj(prototype_id), tagged)
                    /\ products_store' = store_resource(products_store,
                                             tagged.resource_id, Len(objs) + 1)
              /\ entries' = EntriesAfterClone(ProtoObj(prototype_id), objs')
              /\ nextId' = nextId + 2
              /\ metadata' = MetadataAfterClone(prototype_id)
              /\ returned' = ReturnedAfterClone(prototype_id)
              /\ last' = Result("api_clone_prototype", "ok", "", ProtoObj(prototype_id),
                                prototype_id, Len(objs) + 1, 201)
    /\ UNCHANGED <<manager_class, threads, now, prototypes, categories, _store>>

\* CloneableResource.get_prototype_info
get_prototype_info(r) ==
    [prototype_id |-> r.prototype_id, resource_id |-> r.resource_id,
     resource_type |-> r.kind, name |-> r.name, is_prototype |-> r.is_prototype,
     cloned_from |-> r.cloned_from, clone_count |-> r.clone_count,
     created_at |-> r.created_at, last_cloned_at |-> r.last_cloned_at]

\* PrototypeMetadata.to_dict
to_dict(m) ==
    [name |-> m.name, description |-> m.description, category |-> m.category,
     tags |-> m.tags, created_at |-> m.created_at, usage_count |-> m.usage_count]

\* the entry list_prototypes and search_prototypes build for one prototype
PrototypeEntry(pid) ==
    [prototype_id |-> pid,
     prototype_info |-> get_prototype_info(objs[ProtoObj(pid)]),
     metadata |-> to_dict(MetaOf(pid))]

\* an optional argument is None or Some(value); Python takes None and the
\* empty string for false
Truthy(opt) == opt # None /\ opt[1] # ""

\* the filters list_prototypes is called with: none, two categories that
\* registrations use and one that none uses
ListFilters == {None} \cup {Some(c) : c \in RegisterCategories \cup {"storage"}}

\* the ids list_prototypes walks, with the category filter ignored
prototype_ids_NoFilter(category) ==
    [i \in 1..Len(prototypes) |-> prototypes[i].pid]

\* the ids list_prototypes walks: self._categories.get(category, []) under a
\* filter, list(self._prototypes.keys()) without
prototype_ids(category) ==
    IF Truthy(category)
    THEN IF category[1] \in CategoryNames
         THEN categories[CHOOSE i \in 1..Len(categories) :
                            categories[i].category = category[1]].ids
         ELSE <<>>
    ELSE [i \in 1..Len(prototypes) |-> prototypes[i].pid]

\* the list PrototypeManager.list_prototypes returns
ListResult(category) ==
    LET ids == SelectSeq(prototype_ids(category),
                         LAMBDA p : p \in RegisteredIds /\ p \in MetadataIds)
    IN [i \in 1..Len(ids) |-> PrototypeEntry(ids[i])]

\* PrototypeManager.list_prototypes
list_prototypes(category) ==
    /\ last' = Result("list_prototypes", "ok", "", 0, None, ListResult(category), 0)
    /\ UNCHANGED <<manager_class, threads, objs, entries, nextId, now, prototypes, metadata, categories,
                   products_store, _store, returned>>

(* ------------------------------- search ------------------------------ *)
\* The characters of the texts that names, descriptions and queries are
\* drawn from.
Chars(text) ==
    CASE text = "" -> <<>>
      [] text = "Web" -> <<"W", "e", "b">>
      [] text = "db" -> <<"d", "b">>
      [] text = "EB" -> <<"E", "B">>
      [] text = "wb" -> <<"w", "b">>
      [] text = "web" -> <<"w", "e", "b">>
      [] text = "web-template" ->
             <<"w", "e", "b", "-", "t", "e", "m", "p", "l", "a", "t", "e">>
      [] text = "web-prod-01" ->
             <<"w", "e", "b", "-", "p", "r", "o", "d", "-", "0", "1">>

UpperCase == <<"A", "B", "C", "D", "E", "F", "G", "H", "I", "J", "K", "L", "M",
               "N", "O", "P", "Q", "R", "S", "T", "U", "V", "W", "X", "Y", "Z">>
LowerCase == <<"a", "b", "c", "d", "e", "f", "g", "h", "i", "j", "k", "l", "m",
               "n", "o", "p", "q", "r", "s", "t", "u", "v", "w", "x", "y", "z">>

\* str.lower(), character by character
lower(text) ==
    [i \in 1..Len(Chars(text)) |->
        IF \E k \in 1..26 : UpperCase[k] = Chars(text)[i]
        THEN LowerCase[CHOOSE k \in 1..26 : UpperCase[k] = Chars(text)[i]]
        ELSE Chars(text)[i]]

\* a in b for two strings given by their characters
StrIn(a, b) ==
    \E k \in 0..(Len(b) - Len(a)) : SubSeq(b, k + 1, k + Len(a)) = a

\* dict.get(k): None for a missing key
TagGet(tags, k) == IF k \in DOMAIN tags THEN Some(tags[k]) ELSE None

\* the (name, description) pairs registrations are made under: the name
\* alone holds "web", neither holds it, the description alone holds it
SearchTexts == {<<"Web", "">>, <<"db", "">>, <<"db", "Web">>}
SearchQueries == {"", "EB", "wb"}
SearchCategories == {None, Some("vm")}
SearchRegisterTags == {NoTags} \cup {[k \in TagKeys |-> v] : v \in TagVals}
SearchTags == {None, Some([k \in TagKeys |-> "prod"])}

\* the query filter with both fields required to hold the query
query_matches_Both(query, m) ==
    query # "" =>
        (StrIn(lower(query), lower(m.name)) /\ StrIn(lower(query), lower(m.description)))

\* the query filter of search_prototypes
query_matches(query, m) ==
    query # "" =>
        (StrIn(lower(query), lower(m.name)) \/ StrIn(lower(query), lower(m.description)))

\* the category filter
category_matches(category, m) ==
    Truthy(category) => m.category = category[1]

\* the tag filter: an empty dict counts as no filter
tags_match(tags, m) ==
    (tags # None /\ DOMAIN tags[1] # {}) =>
        \A k \in DOMAIN tags[1] : TagGet(m.tags, k) = Some(tags[1][k])

\* the list PrototypeManager.search_prototypes returns
SearchResult(query, category, tags) ==
    LET hits == SelectSeq(metadata, LAMBDA m :
                    /\ m.pid \in RegisteredIds
                    /\ category_matches(category, m)
                    /\ query_matches(query, m)
                    /\ tags_match(tags, m))
    IN [i \in 1..Len(hits) |-> PrototypeEntry(hits[i].pid)]

\* PrototypeManager.search_prototypes; the result is kept with the arguments
\* of the call
search_prototypes(query, category, tags) ==
    /\ last' = Result("search_prototypes", "ok", "", 0, None,
                      SearchResult(query, category, tags), 0)
                  @@ [args |-> <<query, category, tags>>]
    /\ UNCHANGED <<manager_class, threads, objs, entries, nextId, now, prototypes, metadata, categories,
                   products_store, _store, returned>>

\* the category cleanup cutting the list at pid instead of taking pid out
CategoriesAfterRemove_Truncate(pid) ==
    IF pid \in MetadataIds /\ MetaOf(pid).category \in CategoryNames
    THEN [i \in 1..Len(categories) |->
            IF categories[i].category = MetaOf(pid).category
            THEN [categories[i] EXCEPT
                    !.ids = SubSeq(@, 1, (CHOOSE j \in 1..Len(@) : @[j] = pid) - 1)]
            ELSE categories[i]]
    ELSE categories

\* the category cleanup that drops the key of a list it has emptied
CategoriesAfterRemove_DropEmpty(pid) ==
    IF pid \in MetadataIds /\ MetaOf(pid).category \in CategoryNames
    THEN SelectSeq([i \in 1..Len(categories) |->
                      IF categories[i].category = MetaOf(pid).category
                      THEN [categories[i] EXCEPT !.ids = SelectSeq(@, LAMBDA x : x # pid)]
                      ELSE categories[i]],
                   LAMBDA c : c.ids # <<>>)
    ELSE categories

\* remove_prototype without the category cleanup
CategoriesAfterRemove_Keep(pid) == categories

\* the category cleanup of remove_prototype: the list of the category the
\* metadata names is rebuilt without pid; the key stays, also when the list
\* becomes empty
CategoriesAfterRemove(pid) ==
    IF pid \in MetadataIds /\ MetaOf(pid).category \in CategoryNames
    THEN [i \in 1..Len(categories) |->
            IF categories[i].category = MetaOf(pid).category
            THEN [categories[i] EXCEPT !.ids = SelectSeq(@, LAMBDA x : x # pid)]
            ELSE categories[i]]
    ELSE categories

\* remove_prototype that also drops the stored clones of the prototype
remove_prototype_Cascade(pid) ==
    /\ IF pid \notin RegisteredIds
       THEN /\ last' = Result("remove_prototype", "False", "unknown", 0, pid, 0, 0)
            /\ UNCHANGED <<prototypes, metadata, categories, products_store>>
       ELSE /\ categories' = CategoriesAfterRemove(pid)
            /\ prototypes' = SelectSeq(prototypes, LAMBDA e : e.pid # pid)
            /\ metadata' = SelectSeq(metadata, LAMBDA m : m.pid # pid)
            /\ products_store' =
                  [rid \in {x \in DOMAIN products_store :
                               objs[products_store[x]].cloned_from #
                                  objs[ProtoObj(pid)].prototype_id} |->
                      products_store[rid]]
            /\ last' = Result("remove_prototype", "True", "", ProtoObj(pid), pid, 0, 0)
    /\ UNCHANGED <<manager_class, threads, objs, entries, nextId, now, returned, _store>>

\* PrototypeManager.remove_prototype
remove_prototype(pid) ==
    /\ IF pid \notin RegisteredIds
       THEN /\ last' = Result("remove_prototype", "False", "unknown", 0, pid, 0, 0)
            /\ UNCHANGED <<prototypes, metadata, categories>>
       ELSE /\ categories' = CategoriesAfterRemove(pid)
            /\ prototypes' = SelectSeq(prototypes, LAMBDA e : e.pid # pid)
            /\ metadata' = SelectSeq(metadata, LAMBDA m : m.pid # pid)
            /\ last' = Result("remove_prototype", "True", "", ProtoObj(pid), pid, 0, 0)
    /\ UNCHANGED <<manager_class, threads, objs, entries, nextId, now, products_store, _store, returned>>

\* DELETE /prototype/{prototype_id} of prototype_controller
api_delete_prototype(prototype_id) ==
    /\ IF prototype_id \notin RegisteredIds
       THEN /\ last' = Result("api_delete_prototype", "HTTPException", "unknown",
                              0, prototype_id, 0, 404)
            /\ UNCHANGED <<prototypes, metadata, categories>>
       ELSE /\ categories' = CategoriesAfterRemove(prototype_id)
            /\ prototypes' = SelectSeq(prototypes, LAMBDA e : e.pid # prototype_id)
            /\ metadata' = SelectSeq(metadata, LAMBDA m : m.pid # prototype_id)
            /\ last' = Result("api_delete_prototype", "ok", "",
                              ProtoObj(prototype_id), prototype_id, 0, 200)
    /\ UNCHANGED <<manager_class, threads, objs, entries, nextId, now, products_store, _store, returned>>

(* --------------------------- the repository -------------------------- *)
\* What save() is handed: a VMDTO carrying an id, or a product object, of
\* which save() reads resource_id.  _store keeps the values in the order
\* their keys were first set, as a dict does.
Dto(id) == [dto |-> TRUE, id |-> id, obj |-> 0]
Product(o) == [dto |-> FALSE, id |-> objs[o].resource_id, obj |-> o]

StoreIds == {_store[i].id : i \in 1..Len(_store)}

\* the ids repository calls name: the ids of the resources there are, and
\* one id no resource has
UnknownResourceId == <<"i", 0>>
ResourceIds == {objs[o].resource_id : o \in Objs} \cup {UnknownResourceId}

\* VMRepository.save
save(vm) ==
    /\ IF vm.id = None
       THEN /\ last' = Result("save", "ValueError", "", 0, None, 0, 0)
            /\ UNCHANGED _store
       ELSE /\ _store' = IF vm.id \in StoreIds
                         THEN [i \in 1..Len(_store) |->
                                 IF _store[i].id = vm.id THEN vm ELSE _store[i]]
                         ELSE Append(_store, vm)
            /\ last' = Result("save", "ok", "", vm.obj, None, 0, 0)
    /\ UNCHANGED <<manager_class, threads, objs, entries, nextId, now, prototypes, metadata,
                   categories, products_store, returned>>

\* VMRepository.save_product on a product object (it has a resource_id)
save_product(o) ==
    /\ o \in Objs
    /\ products_store' = store_resource(products_store, objs[o].resource_id, o)
    /\ last' = Result("save_product", "ok", "", o, None, 0, 0)
    /\ UNCHANGED <<manager_class, threads, objs, entries, nextId, now, prototypes, metadata,
                   categories, _store, returned>>

\* get() that looks in the DTO store only
get_StoreOnly(vm_id) ==
    IF vm_id \in StoreIds
    THEN LET e == _store[CHOOSE i \in 1..Len(_store) : _store[i].id = vm_id]
         IN [outcome |-> "ok", dto |-> e.dto, obj |-> e.obj]
    ELSE [outcome |-> "KeyError", dto |-> FALSE, obj |-> 0]

\* VMRepository.get: the product kept under vm_id, else the value _store
\* keeps under it, else KeyError
get(vm_id) ==
    IF vm_id \in DOMAIN products_store
    THEN [outcome |-> "ok", dto |-> FALSE, obj |-> products_store[vm_id]]
    ELSE IF vm_id \in StoreIds
         THEN LET e == _store[CHOOSE i \in 1..Len(_store) : _store[i].id = vm_id]
              IN [outcome |-> "ok", dto |-> e.dto, obj |-> e.obj]
         ELSE [outcome |-> "KeyError", dto |-> FALSE, obj |-> 0]

\* a call of VMRepository.get; the id asked for is kept with the result
repository_get(vm_id) ==
    /\ last' = Result("get", get(vm_id).outcome, "", get(vm_id).obj, None,
                      get(vm_id), 0) @@ [args |-> <<vm_id>>]
    /\ UNCHANGED <<manager_class, threads, objs, entries, nextId, now, prototypes, metadata,
                   categories, products_store, _store, returned>>

\* delete() that also takes the resource out of the registry
delete_Cascade(vm_id) ==
    /\ IF vm_id \notin StoreIds /\ vm_id \notin DOMAIN products_store
       THEN /\ last' = Result("delete", "KeyError", "", 0, None, 0, 0)
                          @@ [args |-> <<vm_id>>]
            /\ UNCHANGED <<_store, products_store, prototypes, metadata>>
       ELSE /\ _store' = SelectSeq(_store, LAMBDA e : e.id # vm_id)
            /\ products_store' = [x \in (DOMAIN products_store) \ {vm_id} |->
                                     products_store[x]]
            /\ prototypes' = SelectSeq(prototypes,
                                 LAMBDA e : objs[e.obj].resource_id # vm_id)
            /\ metadata' = SelectSeq(metadata, LAMBDA m :
                              \E i \in 1..Len(prototypes') : prototypes'[i].pid = m.pid)
            /\ last' = Result("delete", "ok", "", 0, None, 0, 0)
                          @@ [args |-> <<vm_id>>]
    /\ UNCHANGED <<manager_class, threads, objs, entries, nextId, now, categories,
                   returned>>

\* VMRepository.delete
delete(vm_id) ==
    /\ IF vm_id \notin StoreIds /\ vm_id \notin DOMAIN products_store
       THEN /\ last' = Result("delete", "KeyError", "", 0, None, 0, 0)
                          @@ [args |-> <<vm_id>>]
            /\ UNCHANGED <<_store, products_store>>
       ELSE /\ _store' = SelectSeq(_store, LAMBDA e : e.id # vm_id)
            /\ products_store' = [x \in (DOMAIN products_store) \ {vm_id} |->
                                     products_store[x]]
            /\ last' = Result("delete", "ok", "", 0, None, 0, 0)
                          @@ [args |-> <<vm_id>>]
    /\ UNCHANGED <<manager_class, threads, objs, entries, nextId, now, prototypes, metadata,
                   categories, returned>>

\* VMRepository.list: list(self._store.values())
list == [i \in 1..Len(_store) |-> _store[i]]

\* a call of VMRepository.list
repository_list ==
    /\ last' = Result("list", "ok", "", 0, None, list, 0)
    /\ UNCHANGED <<manager_class, threads, objs, entries, nextId, now, prototypes, metadata,
                   categories, products_store, _store, returned>>

\* the create endpoint without the can_be_cloned() call
api_create_prototype_NoCheck(resource_id, name, description, category, tags) ==
    /\ LET r == get(resource_id)
           pid == <<"proto", nextId>>
       IN CASE r.outcome # "ok" ->
                 /\ last' = Result("api_create_prototype", "HTTPException", "unknown",
                                   0, None, 0, 404)
                 /\ UNCHANGED <<objs, nextId, prototypes, metadata, categories, returned>>
            [] r.outcome = "ok" /\ r.dto ->
                 /\ last' = Result("api_create_prototype", "HTTPException",
                                   "not_cloneable", r.obj, None, 0, 400)
                 /\ UNCHANGED <<objs, nextId, prototypes, metadata, categories, returned>>
            [] OTHER ->
                 /\ nextId' = nextId + 1
                 /\ objs' = [objs EXCEPT ![r.obj] = mark_as_prototype(@, name)]
                 /\ prototypes' = Append(prototypes, [pid |-> pid, obj |-> r.obj])
                 /\ metadata' = Append(metadata,
                       PrototypeMetadata(pid, name, description, category, tags, now))
                 /\ categories' = CategoriesAfterRegister(category, pid)
                 /\ returned' = [x \in (DOMAIN returned) \cup {pid} |->
                                    IF x = pid THEN 0 ELSE returned[x]]
                 /\ last' = Result("api_create_prototype", "ok", "", r.obj, pid, 0, 201)
    /\ UNCHANGED <<manager_class, threads, entries, now, products_store, _store>>

\* POST /prototype/create of prototype_controller
api_create_prototype(resource_id, name, description, category, tags) ==
    /\ LET r == get(resource_id)
           pid == <<"proto", nextId>>
       IN CASE r.outcome # "ok" ->
                 /\ last' = Result("api_create_prototype", "HTTPException", "unknown",
                                   0, None, 0, 404)
                 /\ UNCHANGED <<objs, nextId, prototypes, metadata, categories, returned>>
            [] r.outcome = "ok" /\ (r.dto \/ ~can_be_cloned(objs[r.obj])) ->
                 /\ last' = Result("api_create_prototype", "HTTPException",
                                   "not_cloneable", r.obj, None, 0, 400)
                 /\ UNCHANGED <<objs, nextId, prototypes, metadata, categories, returned>>
            [] OTHER ->
                 /\ nextId' = nextId + 1
                 /\ objs' = [objs EXCEPT ![r.obj] = mark_as_prototype(@, name)]
                 /\ prototypes' = Append(prototypes, [pid |-> pid, obj |-> r.obj])
                 /\ metadata' = Append(metadata,
                       PrototypeMetadata(pid, name, description, category, tags, now))
                 /\ categories' = CategoriesAfterRegister(category, pid)
                 /\ returned' = [x \in (DOMAIN returned) \cup {pid} |->
                                    IF x = pid THEN 0 ELSE returned[x]]
                 /\ last' = Result("api_create_prototype", "ok", "", r.obj, pid, 0, 201)
    /\ UNCHANGED <<manager_class, threads, entries, now, products_store, _store>>

(* ----------------------------- statistics ---------------------------- *)
\* the comparison with >= in place of >
Exceeds_OrEqual(usage_count, max_usage) == usage_count >= max_usage

\* metadata.usage_count > max_usage
Exceeds(usage_count, max_usage) == usage_count > max_usage

\* the loop over self._metadata.items() from entry i on, most_used and
\* max_usage being what the entries before i left
RECURSIVE most_used_scan(_, _, _)
most_used_scan(i, most_used, max_usage) ==
    IF i > Len(metadata) THEN most_used
    ELSE IF Exceeds(metadata[i].usage_count, max_usage)
         THEN most_used_scan(i + 1,
                  Some([prototype_id |-> metadata[i].pid, name |-> metadata[i].name,
                        usage_count |-> metadata[i].usage_count]),
                  metadata[i].usage_count)
         ELSE most_used_scan(i + 1, most_used, max_usage)

\* sum(p.clone_count for p in ...) over the registered ids of a list
RECURSIVE sum_clone_count(_)
sum_clone_count(ids) ==
    IF ids = <<>> THEN 0
    ELSE (IF Head(ids) \in RegisteredIds
          THEN objs[ProtoObj(Head(ids))].clone_count ELSE 0)
         + sum_clone_count(Tail(ids))

\* the dictionary PrototypeManager.get_statistics returns
Statistics ==
    [total_prototypes |-> Len(prototypes),
     total_clones_created |->
         sum_clone_count([i \in 1..Len(prototypes) |-> prototypes[i].pid]),
     categories |->
         [i \in 1..Len(categories) |->
             [category |-> categories[i].category,
              count |-> Len(categories[i].ids),
              total_clones |-> sum_clone_count(categories[i].ids)]],
     most_used_prototype |-> most_used_scan(1, None, 0)]

\* PrototypeManager.get_statistics
get_statistics ==
    /\ last' = Result("get_statistics", "ok", "", 0, None, Statistics, 0)
    /\ UNCHANGED <<manager_class, threads, objs, entries, nextId, now, prototypes, metadata, categories,
                   products_store, _store, returned>>

\* PrototypeManager.get_categories: list(self._categories.keys())
get_categories == [i \in 1..Len(categories) |-> categories[i].category]

\* PrototypeManager.clear_all
clear_all ==
    /\ prototypes' = <<>>
    /\ metadata' = <<>>
    /\ categories' = <<>>
    /\ last' = Result("clear_all", "ok", "", 0, None, 0, 0)
    /\ UNCHANGED <<manager_class, threads, objs, entries, nextId, now, products_store, _store, returned>>

(* ------------------------ the manager singleton ---------------------- *)
\* manager_class holds the class attributes PrototypeManager._instance (the
\* number of the manager object, 0 for None) and _initialized.  The registry
\* variables are the attributes of the manager object.  The module creates
\* the instance when it is imported (prototype_manager = PrototypeManager()).

\* PrototypeManager() with an __init__ that sets the attributes on every call
PrototypeManager_Reinit ==
    /\ manager_class' = [_instance |-> IF manager_class._instance = 0
                                        THEN 1 ELSE manager_class._instance,
                         _initialized |-> TRUE]
    /\ prototypes' = <<>>
    /\ metadata' = <<>>
    /\ categories' = <<>>
    /\ last' = Result("PrototypeManager", "ok", "", 0, None, manager_class'._instance, 0)
    /\ UNCHANGED <<threads, objs, entries, nextId, now, products_store, _store, returned>>

\* PrototypeManager(): __new__ hands out the instance the class keeps,
\* creating it when there is none, and __init__ sets the attributes of the
\* instance unless the class is marked as initialized
PrototypeManager ==
    /\ manager_class' = [_instance |-> IF manager_class._instance = 0
                                        THEN 1 ELSE manager_class._instance,
                         _initialized |-> TRUE]
    /\ IF ~manager_class._initialized
       THEN /\ prototypes' = <<>>
            /\ metadata' = <<>>
            /\ categories' = <<>>
       ELSE UNCHANGED <<prototypes, metadata, categories>>
    /\ last' = Result("PrototypeManager", "ok", "", 0, None, manager_class'._instance, 0)
    /\ UNCHANGED <<threads, objs, entries, nextId, now, products_store, _store, returned>>

\* The registry and the resource store are empty at start-up; the run begins
\* once a factory has constructed the resource the prototype operations are
\* applied to (its two uuid draws are 1 and 2) and its lifecycle has brought
\* it to some status.
Init ==
    /\ \E k \in Kinds, n \in ResourceNames, s \in ResourceStatus :
          objs = <<[NewResource(k, n, 1, 2, 0) EXCEPT !.status = s]>>
    /\ entries = [a \in {} |-> [port |-> 0]]
    /\ nextId = 3
    /\ now = 0
    /\ prototypes = <<>>
    /\ metadata = <<>>
    /\ categories = <<>>
    /\ products_store = [r \in {} |-> 0]
    /\ _store = <<>>
    /\ returned = [p \in {} |-> 0]
    /\ last = Result("init", "ok", "", 0, None, 0, 0)
    /\ threads = [t \in Threads |-> IdleThread]
    /\ manager_class = [_instance |-> 1, _initialized |-> TRUE]

Next ==
    \/ Tick
    \/ \E o \in Objs, s \in ResourceStatus : SetStatus(o, s)
    \/ \E o \in Objs, k \in TagKeys, v \in TagVals : SetTag(o, k, v)
    \/ \E o \in Objs, p \in Ports : AddListener(o, p)
    \/ \E o \in Objs, i \in 1..MaxListeners, p \in Ports : SetListenerPort(o, i, p)
    \/ \E o \in Objs, a \in Addresses, b \in Addresses : SetAddresses(o, a, b)
    \/ \E o \in Objs, a \in Addresses : assign_public_ip(o, a)
    \/ \E o \in Objs, x \in TargetIds : add_target(o, x)
    \/ \E o \in Objs, x \in TargetIds : remove_target(o, x)
    \/ \E o \in Objs, g \in SecurityGroupIds : add_security_group(o, g)
    \/ \E o \in Objs : configure_security_group(o)
    \/ \E o \in Objs, k \in ObjectKeys : upload_file(o, k)
    \/ \E o \in Objs : clone(o)
    \/ /\ RegisteredFewerThan(MaxRegistrations)
       /\ \E o \in Objs, n \in PrototypeNames, c \in RegisterCategories,
             t \in RegisterTags :
             register_prototype(o, n, DefaultDescription, c, t)
    \/ \E p \in PidInputs, n \in NewNames : clone_prototype(p, n)
    \/ \E p \in PidInputs, b \in PidInputs, n \in NewNames, t \in CustomTags :
          api_clone_prototype(p, b, n, t)
    \/ \E p \in PidInputs : remove_prototype(p)
    \/ clear_all
    \/ \E p \in PidInputs : api_delete_prototype(p)
    \/ get_statistics
    \/ \E t \in Threads, p \in PidInputs, n \in NewNames : thread_call(t, p, n)
    \/ \E t \in Threads : thread_deepcopy(t)
    \/ \E t \in Threads : thread_load_clone_count(t)
    \/ \E t \in Threads : thread_store_clone_count(t)
    \/ \E t \in Threads : thread_load_usage_count(t)
    \/ \E t \in Threads : thread_store_usage_count(t)
    \/ \E c \in ListFilters : list_prototypes(c)
    \/ \E q \in SearchQueries, c \in SearchCategories, t \in SearchTags :
          search_prototypes(q, c, t)
    \/ \E id \in ResourceIds \cup {None} : save(Dto(id))
    \/ \E o \in Objs : save(Product(o))
    \/ \E o \in Objs : save_product(o)
    \/ \E id \in ResourceIds : repository_get(id)
    \/ \E id \in ResourceIds : delete(id)
    \/ repository_list
    \/ PrototypeManager
    \/ /\ RegisteredFewerThan(MaxRegistrations)
       /\ \E id \in ResourceIds, n \in PrototypeNames, c \in RegisterCategories,
             t \in RegisterTags :
             api_create_prototype(id, n, DefaultDescription, c, t)

Spec == Init /\ [][Next]_vars

\* Next is every operation on the shared state.  The specifications below
\* restrict the steps to the operations one group of properties is about,
\* and some of them Init to the resources those operations tell apart, which
\* keeps the reachable states few enough to enumerate.

\* the clone operation on its own: lifecycle changes and clone()
NextClone ==
    \/ \E o \in Objs, s \in ResourceStatus : SetStatus(o, s)
    \/ \E o \in Objs : clone(o)

SpecClone == Init /\ [][NextClone]_vars

\* the clone operation under a running clock
NextClock ==
    \/ Tick
    \/ \E o \in Objs, s \in ResourceStatus : SetStatus(o, s)
    \/ \E o \in Objs : clone(o)

SpecClock == Init /\ [][NextClock]_vars

\* clones and their sources under later changes of their collections
NextIsolation ==
    \/ \E o \in Objs, k \in TagKeys, v \in TagVals : SetTag(o, k, v)
    \/ \E o \in Objs, p \in Ports : AddListener(o, p)
    \/ \E o \in Objs, i \in 1..MaxListeners, p \in Ports : SetListenerPort(o, i, p)
    \/ \E o \in Objs : clone(o)

SpecIsolation == Init /\ [][NextIsolation]_vars

\* the registry: registration and clone_prototype
NextRegistry ==
    \/ /\ RegisteredFewerThan(MaxRegistrations)
       /\ \E o \in Objs, n \in PrototypeNames, c \in RegisterCategories,
             t \in RegisterTags :
             register_prototype(o, n, DefaultDescription, c, t)
    \/ \E p \in PidInputs, n \in NewNames : clone_prototype(p, n)

SpecRegistry == Init /\ [][NextRegistry]_vars

\* the clone endpoint on top of the registry
NextApi ==
    \/ /\ RegisteredFewerThan(MaxRegistrations)
       /\ \E o \in Objs, n \in PrototypeNames, c \in RegisterCategories,
             t \in RegisterTags :
             register_prototype(o, n, DefaultDescription, c, t)
    \/ \E p \in PidInputs, n \in NewNames : clone_prototype(p, n)
    \/ \E p \in PidInputs, b \in PidInputs, n \in NewNames, t \in CustomTags :
          api_clone_prototype(p, b, n, t)

SpecApi == Init /\ [][NextApi]_vars

\* the registry under every call that writes to it
NextManager ==
    \/ /\ RegisteredFewerThan(MaxRegistrations)
       /\ \E o \in Objs, n \in PrototypeNames, c \in RegisterCategories,
             t \in RegisterTags :
             register_prototype(o, n, DefaultDescription, c, t)
    \/ \E p \in PidInputs, n \in NewNames : clone_prototype(p, n)
    \/ \E p \in PidInputs : remove_prototype(p)
    \/ clear_all

\* registration of any resource under any name, the empty one included,
\* between removals
NextRegister ==
    \/ /\ RegisteredFewerThan(MaxRegistrations)
       /\ \E o \in Objs, n \in PrototypeNames \cup {""}, c \in RegisterCategories,
             t \in RegisterTags :
             register_prototype(o, n, DefaultDescription, c, t)
    \/ \E p \in PidInputs : remove_prototype(p)

SpecRegister == Init /\ [][NextRegister]_vars

\* listing between registrations and removals
NextList ==
    \/ /\ RegisteredFewerThan(MaxListed)
       /\ \E o \in Objs, n \in PrototypeNames, c \in RegisterCategories,
             t \in RegisterTags :
             register_prototype(o, n, DefaultDescription, c, t)
    \/ \E p \in PidInputs : remove_prototype(p)
    \/ \E c \in ListFilters : list_prototypes(c)

SpecList == Init /\ [][NextList]_vars

\* The registry calls tell resources apart only by whether clone() returns
\* and whether can_be_cloned() holds: one kind and one status of each sort
\* stand for the rest.
ManagerKinds == {"EC2Instance", "CloudSQLDatabase"}
ManagerStatuses == {"running", "error"}

InitManager ==
    /\ Init
    /\ objs[1].kind \in ManagerKinds
    /\ objs[1].status \in ManagerStatuses

SpecManager == InitManager /\ [][NextManager]_vars

\* load balancers of the three providers, their targets and their clones
NextTargets ==
    \/ \E o \in Objs, x \in TargetIds : add_target(o, x)
    \/ \E o \in Objs, x \in TargetIds : remove_target(o, x)
    \/ \E o \in Objs : clone(o)

InitTargets ==
    /\ Init
    /\ objs[1].kind \in LoadBalancerKinds

SpecTargets == InitTargets /\ [][NextTargets]_vars

\* clones of the resources that carry addresses, endpoints and DNS names
NextNetwork ==
    \/ \E o \in Objs, a \in Addresses, b \in Addresses : SetAddresses(o, a, b)
    \/ \E o \in Objs, a \in Addresses : assign_public_ip(o, a)
    \/ \E o \in Objs : clone(o)
    \/ /\ RegisteredFewerThan(MaxRegistrations)
       /\ \E o \in Objs, n \in PrototypeNames, t \in RegisterTags :
             register_prototype(o, n, DefaultDescription, DefaultCategory, t)
    \/ \E p \in PidInputs, n \in NewNames : clone_prototype(p, n)

InitNetwork ==
    /\ Init
    /\ objs[1].kind \in {"EC2Instance", "EC2NetworkInterface", "RDSDatabase",
                         "ApplicationLoadBalancer"}
    /\ objs[1].status = "running"

SpecNetwork == InitNetwork /\ [][NextNetwork]_vars

\* clone requests served by several threads, one request each
NextThreads ==
    \/ /\ RegisteredFewerThan(MaxRegistrations)
       /\ \A t \in Threads : threads[t].pc = "idle"
       /\ \E o \in Objs, n \in PrototypeNames, c \in RegisterCategories,
             t \in RegisterTags :
             register_prototype(o, n, DefaultDescription, c, t)
    \/ \E t \in Threads, p \in PidInputs, n \in NewNames : thread_call(t, p, n)
    \/ \E t \in Threads : thread_deepcopy(t)
    \/ \E t \in Threads : thread_load_clone_count(t)
    \/ \E t \in Threads : thread_store_clone_count(t)
    \/ \E t \in Threads : thread_load_usage_count(t)
    \/ \E t \in Threads : thread_store_usage_count(t)

SpecThreads == InitManager /\ [][NextThreads]_vars

\* statistics read between registrations, clones and removals
NextStatistics ==
    \/ /\ RegisteredFewerThan(MaxRegistrations)
       /\ \E o \in Objs, n \in PrototypeNames, t \in RegisterTags :
             register_prototype(o, n, DefaultDescription, DefaultCategory, t)
    \/ \E p \in PidInputs, n \in NewNames : clone_prototype(p, n)
    \/ \E p \in PidInputs : remove_prototype(p)
    \/ get_statistics

SpecStatistics == InitManager /\ [][NextStatistics]_vars

\* the clone requests made: a bare one, and one with a name and tags
StoreRequests == {<<"", NoTags>>, <<"web-prod-01", [k \in TagKeys |-> "prod"]>>}

\* clones kept in the resource store while their prototypes are removed;
\* only resources that clone_prototype clones leave anything in the store
NextStore ==
    \/ /\ RegisteredFewerThan(MaxRegistrations)
       /\ \E o \in Objs, n \in PrototypeNames, t \in RegisterTags :
             register_prototype(o, n, DefaultDescription, DefaultCategory, t)
    \/ \E p \in PidInputs, r \in StoreRequests :
          api_clone_prototype(p, p, r[1], r[2])
    \/ \E p \in PidInputs : remove_prototype(p)
    \/ \E p \in PidInputs : api_delete_prototype(p)

InitStore ==
    /\ Init
    /\ objs[1].kind \in {"EC2Instance", "ApplicationLoadBalancer"}
    /\ objs[1].status = "running"

SpecStore == InitStore /\ [][NextStore]_vars

\* searching between registrations, under varied names, descriptions and
\* tags, and removals
NextSearch ==
    \/ /\ RegisteredFewerThan(MaxRegistrations)
       /\ \E o \in Objs, nd \in SearchTexts,
             c \in RegisterCategories, t \in SearchRegisterTags :
             register_prototype(o, nd[1], nd[2], c, t)
    \/ \E p \in PidInputs : remove_prototype(p)
    \/ \E q \in SearchQueries, c \in SearchCategories, t \in SearchTags :
          search_prototypes(q, c, t)

\* search reads the registry only: the one resource that gets registered is
\* a running EC2 instance
InitSearch ==
    /\ Init
    /\ objs[1].kind = "EC2Instance"
    /\ objs[1].status = "running"

SpecSearch == InitSearch /\ [][NextSearch]_vars

\* VMs and network interfaces and their clones; security groups are given
\* to the resources that are no clones themselves
NextGroups ==
    \/ \E o \in Objs, g \in SecurityGroupIds :
          objs[o].cloned_from = None /\ add_security_group(o, g)
    \/ \E o \in Objs :
          objs[o].cloned_from = None /\ configure_security_group(o)
    \/ \E o \in Objs : clone(o)

InitGroups ==
    /\ Init
    /\ objs[1].kind \in {"EC2Instance", "EC2NetworkInterface"}

SpecGroups == InitGroups /\ [][NextGroups]_vars

\* the create endpoint over resources saved in either store, between
\* lifecycle changes
NextCreate ==
    \/ \E o \in Objs, st \in ResourceStatus : SetStatus(o, st)
    \/ \E id \in ResourceIds \cup {None} : save(Dto(id))
    \/ \E o \in Objs : save(Product(o))
    \/ \E o \in Objs : save_product(o)
    \/ /\ RegisteredFewerThan(MaxRegistrations)
       /\ \E id \in ResourceIds, n \in PrototypeNames, t \in RegisterTags :
             api_create_prototype(id, n, DefaultDescription, DefaultCategory, t)

SpecCreate == Init /\ [][NextCreate]_vars

\* clone requests for prototypes whose resources carry tags of their own
NextTags ==
    \/ \E o \in Objs, k \in TagKeys, v \in TagVals :
          objs[o].cloned_from = None /\ SetTag(o, k, v)
    \/ /\ RegisteredFewerThan(MaxRegistrations)
       /\ \E o \in Objs, n \in PrototypeNames, t \in RegisterTags :
             register_prototype(o, n, DefaultDescription, DefaultCategory, t)
    \/ \E p \in PidInputs : \E b \in {p, UnknownId}, r \in StoreRequests :
          api_clone_prototype(p, b, r[1], r[2])

SpecTags == InitManager /\ [][NextTags]_vars

\* the registry over its lifetime: every call that writes to it, further
\* constructions of the manager and the passing of time
NextLifetime ==
    \/ Tick
    \/ PrototypeManager
    \/ /\ RegisteredFewerThan(MaxRegistrations)
       /\ \E o \in Objs, n \in PrototypeNames, t \in RegisterTags :
             register_prototype(o, n, DefaultDescription, DefaultCategory, t)
    \/ \E p \in PidInputs : clone_prototype(p, "")
    \/ \E p \in PidInputs : remove_prototype(p)
    \/ clear_all

SpecLifetime == InitSearch /\ [][NextLifetime]_vars

\* buckets, the files uploaded to them and their clones
NextBucket ==
    \/ \E o \in Objs, k \in ObjectKeys : upload_file(o, k)
    \/ \E o \in Objs : clone(o)
    \/ /\ RegisteredFewerThan(MaxRegistrations)
       /\ \E o \in Objs, n \in PrototypeNames, t \in RegisterTags :
             register_prototype(o, n, DefaultDescription, DefaultCategory, t)
    \/ \E p \in PidInputs, n \in NewNames : clone_prototype(p, n)

InitBucket ==
    /\ Init
    /\ objs[1].kind = "S3Storage"
    /\ objs[1].status = "running"

SpecBucket == InitBucket /\ [][NextBucket]_vars

\* prototypes made from stored resources that later change their status or
\* leave the store; the resources saved are those that are no clones
NextLive ==
    \/ \E o \in Objs, st \in ResourceStatus :
          objs[o].cloned_from = None /\ SetStatus(o, st)
    \/ \E o \in Objs :
          objs[o].cloned_from = None /\ save_product(o)
    \/ \E id \in ResourceIds : delete(id)
    \/ /\ RegisteredFewerThan(MaxRegistrations)
       /\ \E id \in ResourceIds, n \in PrototypeNames, t \in RegisterTags :
             api_create_prototype(id, n, DefaultDescription, DefaultCategory, t)
    \/ \E p \in PidInputs : clone_prototype(p, "")

SpecLive == InitManager /\ [][NextLive]_vars

\* categories over registrations, clones, removals and clear_all, with the
\* statistics read in between
NextCategories ==
    \/ /\ RegisteredFewerThan(MaxRegistrations)
       /\ \E o \in Objs, n \in PrototypeNames, c \in RegisterCategories,
             t \in RegisterTags :
             register_prototype(o, n, DefaultDescription, c, t)
    \/ \E p \in PidInputs : clone_prototype(p, "")
    \/ \E p \in PidInputs : remove_prototype(p)
    \/ clear_all
    \/ get_statistics

SpecCategories == InitSearch /\ [][NextCategories]_vars

\* clone requests for prototypes of every kind whose clone() raises, and of
\* one kind whose clone() returns
NextFailure ==
    \/ /\ RegisteredFewerThan(MaxRegistrations)
       /\ \E o \in Objs, n \in PrototypeNames, t \in RegisterTags :
             register_prototype(o, n, DefaultDescription, DefaultCategory, t)
    \/ \E p \in PidInputs : clone_prototype(p, "")
    \/ \E p \in PidInputs, r \in StoreRequests :
          api_clone_prototype(p, p, r[1], r[2])

InitFailure ==
    /\ Init
    /\ objs[1].kind \in GcpKinds \cup OnPremKinds \cup {"EC2Instance"}
    /\ objs[1].status = "running"

SpecFailure == InitFailure /\ [][NextFailure]_vars

\* the resource store under saves of DTOs and products, clone requests,
\* reads and deletions; clones enter the store through the clone request
NextRepository ==
    \/ \E id \in ResourceIds \cup {None} : save(Dto(id))
    \/ \E o \in Objs : objs[o].cloned_from = None /\ save(Product(o))
    \/ \E o \in Objs : objs[o].cloned_from = None /\ save_product(o)
    \/ /\ RegisteredFewerThan(MaxRegistrations)
       /\ \E o \in Objs, n \in PrototypeNames, t \in RegisterTags :
             register_prototype(o, n, DefaultDescription, DefaultCategory, t)
    \/ \E p \in PidInputs : api_clone_prototype(p, p, "", NoTags)
    \/ \E id \in ResourceIds : repository_get(id)
    \/ \E id \in ResourceIds : delete(id)
    \/ repository_list

SpecRepository == InitSearch /\ [][NextRepository]_vars

(* ============================== claims ================================ *)
\* a step in which the call op was made (every call leaves its result in last)
Did(op) == last' # last /\ last'.op = op

Cloneable(o) == can_be_cloned(objs[o])

\* the collections an observer reads through object o
CollectionsOf(os, es, o) ==
    <<os[o].tags, os[o].security_groups, ListenerView(os, es, o),
      os[o].targets, os[o].objects>>

UsageCount(ms, pid) ==
    (ms[CHOOSE i \in 1..Len(ms) : ms[i].pid = pid]).usage_count

\* C1: the resource clone() returns has a resource identifier and a prototype
\* identifier that differ from those of the resource it was cloned from.
C1_FreshIdentifiers ==
    (last.op = "clone" /\ last.outcome = "ok") =>
        /\ objs[last.ret].resource_id # objs[last.src].resource_id
        /\ objs[last.ret].prototype_id # objs[last.src].prototype_id

C1_Witness ==
    /\ last.op = "clone" /\ last.outcome = "ok"
    /\ Cloneable(last.src)
    /\ objs[last.ret].cloned_from = objs[last.src].prototype_id

\* C2: a clone starts with cloned_from equal to its source's prototype
\* identifier, clone_count 0 and last_cloned_at unset, and the clone_count and
\* last_cloned_at of an object change only in a clone taken of that object
\* itself: later clones of the source leave the clone's counters alone.
C2_CloneStartsAtZero ==
    [][ /\ (Did("clone") /\ last'.outcome = "ok") =>
              /\ objs'[last'.ret].cloned_from = objs[last'.src].prototype_id
              /\ objs'[last'.ret].clone_count = 0
              /\ objs'[last'.ret].last_cloned_at = None
        /\ \A x \in Objs :
              (\/ objs'[x].clone_count # objs[x].clone_count
               \/ objs'[x].last_cloned_at # objs[x].last_cloned_at) =>
                 (Did("clone") /\ last'.outcome = "ok" /\ last'.src = x) ]_vars

\* a clone whose source has been cloned again after it
C2_Witness ==
    \E r \in Objs, c \in Objs :
        /\ objs[c].cloned_from = objs[r].prototype_id
        /\ objs[r].clone_count = 2
        /\ objs[c].clone_count = 0
        /\ objs[c].last_cloned_at = None
        /\ c < Len(objs)

\* C3: a successful clone of R adds exactly 1 to R.clone_count and sets
\* R.last_cloned_at to a timestamp that is set and not earlier than its prior
\* value; R.clone_count always equals the number of clones taken of R.
C3_SourceCounts ==
    /\ [](\A r \in Objs :
            objs[r].clone_count =
               Cardinality({c \in Objs : objs[c].cloned_from = objs[r].prototype_id}))
    /\ [][ (Did("clone") /\ last'.outcome = "ok") =>
              /\ objs'[last'.src].clone_count = objs[last'.src].clone_count + 1
              /\ objs'[last'.src].last_cloned_at # None
              /\ objs[last'.src].last_cloned_at # None =>
                    objs'[last'.src].last_cloned_at[1] >= objs[last'.src].last_cloned_at[1] ]_vars

\* a resource cloned twice, the second time later than it was created
C3_Witness ==
    \E r \in Objs :
        /\ objs[r].clone_count = 2
        /\ objs[r].last_cloned_at # None
        /\ objs[r].last_cloned_at[1] > objs[r].created_at

\* C4: a change made to a collection through one object (a tag written, a
\* listener added, an entry of the listeners list rewritten) never changes
\* what any other object shows in its collections, clone or source.
C4_DeepCopyIsolation ==
    [][ \A o \in Objs :
          (\/ \E k \in TagKeys, v \in TagVals : SetTag(o, k, v)
           \/ \E p \in Ports : AddListener(o, p)
           \/ \E i \in 1..MaxListeners, p \in Ports : SetListenerPort(o, i, p)) =>
             \A x \in Objs \ {o} :
                CollectionsOf(objs', entries', x) = CollectionsOf(objs, entries, x) ]_vars

\* C5: clone() on a resource whose status is deleting or error raises the
\* invalid-state error.
C5_InvalidStateRejected ==
    (last.op = "clone" /\ objs[last.src].status \in {"deleting", "error"}) =>
        last.outcome = "InvalidStateError"

\* C6: clone() on a resource of any kind whose status is creating, running or
\* stopped returns a clone.
C6_EveryKindClones ==
    (last.op = "clone" /\ objs[last.src].status \in {"creating", "running", "stopped"}) =>
        last.outcome = "ok"

\* C7: the clone clone_prototype(P, ...) returns has cloned_from equal to P,
\* the identifier register_prototype returned.
C7_ClonedFromIsRegisteredId ==
    (last.op = "clone_prototype" /\ last.outcome = "ok") =>
        objs[last.ret].cloned_from = last.pid

\* C8: a clone_prototype(P, ...) call that returns a clone adds exactly 1 to
\* the usage_count of P and leaves every other usage_count alone; a call that
\* returns no clone changes no usage_count and no clone_count; the usage_count
\* of P always equals the number of clones clone_prototype has returned for P.
C8_UsageCount ==
    /\ [](\A p \in MetadataIds : MetaOf(p).usage_count = returned[p])
    /\ [][ Did("clone_prototype") =>
             IF last'.outcome = "ok"
             THEN /\ MetadataIds' = MetadataIds
                  /\ \A p \in MetadataIds :
                        UsageCount(metadata', p) =
                           UsageCount(metadata, p) + (IF p = last'.pid THEN 1 ELSE 0)
             ELSE /\ metadata' = metadata
                  /\ \A x \in Objs : objs'[x].clone_count = objs[x].clone_count ]_vars

\* two registered prototypes, one cloned twice through the registry, the
\* other never
C8_Witness ==
    \E p \in MetadataIds, q \in MetadataIds :
        /\ p # q
        /\ MetaOf(p).usage_count = 2
        /\ MetaOf(q).usage_count = 0

\* C9: clone_prototype and the clone endpoint answer a registered prototype
\* that cannot be cloned with a signal other than the one they give for an
\* unknown prototype id (None from the manager, 404 from the endpoint).
C9_FailuresDistinguishable ==
    last.cause = "not_cloneable" =>
        /\ last.op = "clone_prototype" => last.outcome # "None"
        /\ last.op = "api_clone_prototype" => last.http # 404

\* C10: clone_prototype, whether it returns a clone or not, leaves the
\* registered ids, the metadata keys and every category list as they were,
\* and a clone it returns has is_prototype = FALSE.
C10_CloneNotRegistered ==
    [][ Did("clone_prototype") =>
          /\ prototypes' = prototypes
          /\ MetadataIds' = MetadataIds
          /\ categories' = categories
          /\ last'.outcome = "ok" => objs'[last'.ret].is_prototype = FALSE ]_vars

\* a clone returned for a registered prototype that carries the flag
C10_Witness ==
    /\ last.op = "clone_prototype" /\ last.outcome = "ok"
    /\ last.pid \in RegisteredIds
    /\ objs[last.src].is_prototype
    /\ ~objs[last.ret].is_prototype

\* the places (list, position) at which pid occurs in the category lists
CategoryPlaces(pid) ==
    UNION {{<<i, j>> : j \in {k \in 1..Len(categories[i].ids) :
                                  categories[i].ids[k] = pid}} :
           i \in 1..Len(categories)}

\* C11: whatever register_prototype, clone_prototype, remove_prototype and
\* clear_all calls were made, every registered id has a metadata entry and
\* occurs exactly once in the category lists, in the list of its metadata's
\* category, and no category list holds an id that is not registered.
C11_RegistryConsistent ==
    /\ \A p \in RegisteredIds :
          /\ p \in MetadataIds
          /\ Cardinality(CategoryPlaces(p)) = 1
          /\ \A pl \in CategoryPlaces(p) :
                categories[pl[1]].category = MetaOf(p).category
    /\ \A i \in 1..Len(categories) : \A j \in 1..Len(categories[i].ids) :
          categories[i].ids[j] \in RegisteredIds

\* a prototype was removed while another one, cloned through the registry,
\* stays registered
C11_Witness ==
    /\ last.op = "remove_prototype" /\ last.outcome = "True"
    /\ \E p \in RegisteredIds : MetaOf(p).usage_count > 0

\* the list of ids kept for category c in cs, empty when c is no key
CategoryList(cs, c) ==
    IF \E i \in 1..Len(cs) : cs[i].category = c
    THEN cs[CHOOSE i \in 1..Len(cs) : cs[i].category = c].ids
    ELSE <<>>

\* the metadata entry of pid in ms
MetaIn(ms, pid) == ms[CHOOSE i \in 1..Len(ms) : ms[i].pid = pid]

\* what a register_prototype(o, n, ..., c, t) step does, the display name
\* of the resource afterwards being nm
RegisterEffect(o, n, c, t, nm) ==
    /\ last'.outcome = "ok"
    /\ last'.pid \notin DOMAIN returned
    /\ objs'[o].is_prototype
    /\ objs'[o].name = nm
    /\ \E i \in 1..Len(prototypes') :
          prototypes'[i].pid = last'.pid /\ prototypes'[i].obj = o
    /\ MetaIn(metadata', last'.pid) =
          PrototypeMetadata(last'.pid, n, DefaultDescription, c, t, now)
    /\ MetaIn(metadata', last'.pid).usage_count = 0
    /\ c \in CategoryNames'
    /\ CategoryList(categories', c) = Append(CategoryList(categories, c), last'.pid)
    /\ \A d \in CategoryNames \ {c} :
          CategoryList(categories', d) = CategoryList(categories, d)

\* register_prototype accepts every resource and every input
RegisterAccepts ==
    \A o \in Objs, n \in PrototypeNames \cup {""}, c \in RegisterCategories,
       t \in RegisterTags :
        ENABLED register_prototype(o, n, DefaultDescription, c, t)

\* C12: register_prototype succeeds for any resource: it returns an id it
\* never returned before, sets is_prototype and sets the display name to the
\* given name, stores metadata with usage_count 0 and appends the id at the
\* end of the given category's list, creating the category on first use.
C12_RegisterSetsName ==
    /\ []RegisterAccepts
    /\ [][ \A o \in Objs, n \in PrototypeNames \cup {""}, c \in RegisterCategories,
              t \in RegisterTags :
              register_prototype(o, n, DefaultDescription, c, t) =>
                  RegisterEffect(o, n, c, t, n) ]_vars

\* C12 as amended: the display name becomes the given name when that name
\* is not empty, and stays as it was when it is empty.
C12_RegisterSucceeds ==
    /\ []RegisterAccepts
    /\ [][ \A o \in Objs, n \in PrototypeNames \cup {""}, c \in RegisterCategories,
              t \in RegisterTags :
              register_prototype(o, n, DefaultDescription, c, t) =>
                  RegisterEffect(o, n, c, t, IF n # "" THEN n ELSE objs[o].name) ]_vars

\* a second id appended behind the first in a category's list, the resource
\* registered under an empty name keeping its own
C12_Witness ==
    /\ last.op = "register_prototype"
    /\ Len(CategoryList(categories, MetaOf(last.pid).category)) = 2
    /\ MetaOf(last.pid).name = ""
    /\ objs[last.src].is_prototype
    /\ objs[last.src].name \in ResourceNames

\* the prototype ids of the entries of a result list
IdsOf(result) == [i \in 1..Len(result) |-> result[i].prototype_id]

\* ids are handed out in increasing order: a list is in registration order
\* when its ids increase
InRegistrationOrder(ids) ==
    \A i \in 1..Len(ids) : \A j \in 1..Len(ids) : i < j => ids[i][2] < ids[j][2]

\* C13: list_prototypes(category) returns exactly the registered prototypes
\* whose registration category is the filter, list_prototypes() returns all
\* registered prototypes, each once and in registration order, also after
\* removals; a category without registered prototype gives the empty list.
C13_ListExact ==
    [][ \A f \in ListFilters :
          list_prototypes(f) =>
             LET ids == IdsOf(last'.ret) IN
             /\ {ids[i] : i \in 1..Len(ids)} =
                    {p \in RegisteredIds : f = None \/ MetaOf(p).category = f[1]}
             /\ InRegistrationOrder(ids)
             /\ \A i \in 1..Len(ids) : last'.ret[i] = PrototypeEntry(ids[i]) ]_vars

\* a listing under a category filter that returns two prototypes, made after
\* the prototype registered between them was removed
C13_Witness ==
    /\ last.op = "list_prototypes"
    /\ Len(last.ret) = 2
    /\ last.ret[1].metadata.category = "vm"
    /\ \E p \in (DOMAIN returned) \ RegisteredIds :
          /\ last.ret[1].prototype_id[2] < p[2]
          /\ p[2] < last.ret[2].prototype_id[2]

\* two characters that are the same letter, whatever their case
SameLetter(a, b) ==
    \/ a = b
    \/ \E k \in 1..26 : {a, b} = {UpperCase[k], LowerCase[k]}

\* q occurs in text as a run of consecutive characters, case ignored
OccursIn(q, text) ==
    \E k \in 0..(Len(Chars(text)) - Len(Chars(q))) :
        \A i \in 1..Len(Chars(q)) : SameLetter(Chars(q)[i], Chars(text)[k + i])

\* the filters of C14 applied to the metadata m
Satisfies(m, q, c, t) ==
    /\ q = "" \/ OccursIn(q, m.name) \/ OccursIn(q, m.description)
    /\ c = None \/ m.category = c[1]
    /\ t = None \/ \A k \in DOMAIN t[1] : k \in DOMAIN m.tags /\ m.tags[k] = t[1][k]

\* C14: search_prototypes(query, category, tags) returns exactly the
\* registered prototypes, each once, whose metadata passes all three filters:
\* the query is empty or occurs, case ignored, in the name or in the
\* description; no category is given or it is the metadata's category; no
\* tags are given or every given key is in the metadata tags with the given
\* value.
C14_SearchExact ==
    last.op = "search_prototypes" =>
        LET ids == IdsOf(last.ret) IN
        /\ {ids[i] : i \in 1..Len(ids)} =
               {p \in RegisteredIds :
                   Satisfies(MetaOf(p), last.args[1], last.args[2], last.args[3])}
        /\ Len(ids) = Cardinality({ids[i] : i \in 1..Len(ids)})
        /\ \A i \in 1..Len(ids) : last.ret[i] = PrototypeEntry(ids[i])

\* a search that returned one of two registered prototypes, found through
\* its description only and by a query in another case
C14_Witness ==
    /\ last.op = "search_prototypes"
    /\ Len(last.ret) = 1
    /\ Len(prototypes) = 2
    /\ last.ret[1].metadata.name = "db"
    /\ last.ret[1].metadata.description = "Web"
    /\ \E p \in RegisteredIds : MetaOf(p).name = "db" /\ MetaOf(p).description = ""

\* the ids of a list, and whether x stands before y in it
Members(ids) == {ids[i] : i \in 1..Len(ids)}

Before(ids, x, y) ==
    \E i \in 1..Len(ids) : \E j \in 1..Len(ids) : i < j /\ ids[i] = x /\ ids[j] = y

\* the object registered under pid in ps
EntryIn(ps, pid) == ps[CHOOSE i \in 1..Len(ps) : ps[i].pid = pid].obj

\* C15: remove_prototype(id) on an id that is not registered returns False
\* and leaves the id map, the metadata map and the category lists as they
\* were; on a registered id it returns True, the id is gone from the id map,
\* the metadata map and the category lists, and every other prototype keeps
\* its entry, its metadata and its place among the others in its list.
C15_RemoveExact ==
    [][ \A id \in PidInputs :
          remove_prototype(id) =>
            IF id \notin RegisteredIds
            THEN /\ last'.outcome = "False"
                 /\ prototypes' = prototypes
                 /\ metadata' = metadata
                 /\ categories' = categories
            ELSE /\ last'.outcome = "True"
                 /\ RegisteredIds' = RegisteredIds \ {id}
                 /\ MetadataIds' = MetadataIds \ {id}
                 /\ \A q \in RegisteredIds \ {id} :
                       /\ EntryIn(prototypes', q) = EntryIn(prototypes, q)
                       /\ MetaIn(metadata', q) = MetaIn(metadata, q)
                 /\ CategoryNames' = CategoryNames
                 /\ \A c \in CategoryNames :
                       /\ Members(CategoryList(categories', c)) =
                             Members(CategoryList(categories, c)) \ {id}
                       /\ Len(CategoryList(categories', c)) =
                             Cardinality(Members(CategoryList(categories', c)))
                       /\ \A x \in RegisteredIds \ {id}, y \in RegisteredIds \ {id} :
                             Before(CategoryList(categories', c), x, y) <=>
                                Before(CategoryList(categories, c), x, y) ]_vars

\* the first of three prototypes of one category was removed and the other
\* two stay in its list, in their order
C15_Witness ==
    /\ last.op = "remove_prototype" /\ last.outcome = "True"
    /\ Len(categories) = 1
    /\ Len(categories[1].ids) = 2
    /\ last.pid[2] < categories[1].ids[1][2]
    /\ categories[1].ids[1][2] < categories[1].ids[2][2]

\* what a reader gets for the object o: its fields and its listeners
Observed(os, es, o) == <<os[o], ListenerView(os, es, o)>>

\* C16: removing a prototype, through the manager or through the DELETE
\* endpoint, changes no resource cloned from it: the resource store keeps
\* its keys and every stored clone reads as before, cloned_from included.
C16_RemoveKeepsClones ==
    [][ (Did("remove_prototype") \/ Did("api_delete_prototype")) =>
          /\ DOMAIN products_store' = DOMAIN products_store
          /\ \A rid \in DOMAIN products_store :
                /\ products_store'[rid] = products_store[rid]
                /\ Observed(objs', entries', products_store'[rid]) =
                      Observed(objs, entries, products_store[rid])
          /\ objs' = objs ]_vars

\* a registered prototype was removed after a clone of it went to the store
C16_Witness ==
    /\ last.op \in {"remove_prototype", "api_delete_prototype"}
    /\ last.outcome \in {"True", "ok"}
    /\ \E rid \in DOMAIN products_store :
          /\ get(rid).outcome = "ok"
          /\ objs[get(rid).obj].cloned_from = objs[last.src].prototype_id
          /\ objs[get(rid).obj].resource_id = rid

\* C17: get_statistics reports as most_used_prototype the registered
\* prototype with the highest usage_count, the one registered first among
\* those that tie, and reports none when no registered prototype has a
\* usage_count above 0 or none is registered.
C17_MostUsed ==
    last.op = "get_statistics" =>
        LET mu == last.ret.most_used_prototype IN
        IF \A p \in RegisteredIds : MetaOf(p).usage_count = 0
        THEN mu = None
        ELSE /\ mu # None
             /\ mu[1].prototype_id \in RegisteredIds
             /\ mu[1].usage_count = MetaOf(mu[1].prototype_id).usage_count
             /\ mu[1].name = MetaOf(mu[1].prototype_id).name
             /\ \A q \in RegisteredIds :
                   /\ MetaOf(q).usage_count <= mu[1].usage_count
                   /\ MetaOf(q).usage_count = mu[1].usage_count =>
                         mu[1].prototype_id[2] <= q[2]

\* statistics read while two registered prototypes tie at one clone each
C17_Witness ==
    /\ last.op = "get_statistics"
    /\ last.ret.most_used_prototype # None
    /\ \E q \in RegisteredIds :
          /\ q # last.ret.most_used_prototype[1].prototype_id
          /\ MetaOf(q).usage_count = last.ret.most_used_prototype[1].usage_count

\* the threads that have returned a clone of prototype p
Served(p) ==
    {t \in Threads : threads[t].pc = "done" /\ threads[t].pid = p /\ threads[t].cloned # 0}

\* C18: when the threads that were asked for a clone of one prototype have
\* all returned, with whatever interleaving of their steps, the usage_count
\* of the prototype is the number of clones they returned.
C18_NoLostUpdate ==
    \A p \in MetadataIds :
        (\A t \in Threads : threads[t].pid = p => threads[t].pc = "done") =>
            MetaOf(p).usage_count = Cardinality(Served(p))

\* the objects cloned from the same object as c, and that object
Relatives(os, c) ==
    {x \in 1..Len(os) : x # c /\ (\/ os[x].cloned_from = os[c].cloned_from
                                   \/ os[x].prototype_id = os[c].cloned_from)}

\* C19: a clone, made by clone() or by clone_prototype under any new name,
\* has empty private and public IP when it is a VM or a network interface,
\* and a DNS name (load balancer) or endpoint (database) that differs from
\* its source's and from those of the other clones of its source.
C19_NetworkFieldsUnique ==
    [][ ((Did("clone") \/ Did("clone_prototype")) /\ last'.outcome = "ok") =>
          LET c == last'.ret IN
          /\ objs'[c].kind \in {"EC2Instance", "EC2NetworkInterface"} =>
                objs'[c].private_ip = "" /\ objs'[c].public_ip = ""
          /\ objs'[c].kind = "ApplicationLoadBalancer" =>
                \A x \in Relatives(objs', c) : objs'[x].dns_name # objs'[c].dns_name
          /\ objs'[c].kind = "RDSDatabase" =>
                \A x \in Relatives(objs', c) : objs'[x].endpoint # objs'[c].endpoint ]_vars

\* C20: the clone of a load balancer starts without targets whatever
\* targets its source has, and a target added to or removed from one load
\* balancer, the clone in particular, leaves the targets of every other one,
\* its source in particular, as they were.
C20_CloneTargetsEmpty ==
    [][ /\ (Did("clone") /\ last'.outcome = "ok"
              /\ objs[last'.src].kind \in LoadBalancerKinds) =>
                /\ objs'[last'.ret].targets = <<>>
                /\ objs'[last'.src].targets = objs[last'.src].targets
        /\ (Did("add_target") \/ Did("remove_target")) =>
              \A o \in Objs :
                 objs'[o].targets # objs[o].targets =>
                    \A x \in Objs \ {o} : objs'[x].targets = objs[x].targets ]_vars

\* a load balancer with two targets and a clone of it that was given one
C20_Witness ==
    \E r \in Objs, c \in Objs :
        /\ objs[c].cloned_from = objs[r].prototype_id
        /\ objs[r].kind \in LoadBalancerKinds
        /\ Len(objs[r].targets) = 2
        /\ Len(objs[c].targets) = 1
        /\ last.op = "add_target"

\* C21: the clone of a VM or of a network interface has the security groups
\* its source had when it was cloned, in the same order, and the clone
\* operation leaves the source's list as it was.
C21_SecurityGroupsKept ==
    [][ (Did("clone") /\ last'.outcome = "ok"
           /\ objs[last'.src].kind \in {"EC2Instance", "EC2NetworkInterface"}) =>
             /\ objs'[last'.ret].security_groups = objs[last'.src].security_groups
             /\ objs'[last'.src].security_groups = objs[last'.src].security_groups ]_vars

\* a clone just taken of a resource that is in two different groups
C21_Witness ==
    /\ last.op = "clone" /\ last.outcome = "ok"
    /\ Len(objs[last.src].security_groups) = 2
    /\ objs[last.src].security_groups[1] # objs[last.src].security_groups[2]
    /\ objs[last.ret].security_groups = objs[last.src].security_groups

\* the registry, the resource objects and both stores stay as they are
NothingWritten ==
    /\ prototypes' = prototypes
    /\ metadata' = metadata
    /\ categories' = categories
    /\ objs' = objs
    /\ products_store' = products_store
    /\ _store' = _store

\* C22: the create endpoint answers a resource id the resource store does
\* not hold with 404 and a stored resource that cannot be cloned with 400,
\* leaving the registry and the stored resource unchanged in both cases; it
\* registers a prototype, for the stored resource, exactly when the resource
\* is there and can be cloned.
C22_CreateChecksResource ==
    [][ \A id \in ResourceIds, n \in PrototypeNames, t \in RegisterTags :
          api_create_prototype(id, n, DefaultDescription, DefaultCategory, t) =>
             IF id \notin StoreIds \cup DOMAIN products_store
             THEN last'.http = 404 /\ NothingWritten
             ELSE IF get(id).dto \/ objs[get(id).obj].status \in {"deleting", "error"}
             THEN last'.http = 400 /\ NothingWritten
             ELSE /\ last'.http = 201
                  /\ RegisteredIds' = RegisteredIds \cup {last'.pid}
                  /\ last'.pid \notin RegisteredIds
                  /\ objs[EntryIn(prototypes', last'.pid)].resource_id = id
                  /\ objs'[EntryIn(prototypes', last'.pid)].is_prototype ]_vars

\* the endpoint refused, with 400, a stored resource it had registered
\* before the resource went into a state that cannot be cloned
C22_Witness ==
    /\ last.op = "api_create_prototype" /\ last.http = 400
    /\ last.src # 0
    /\ objs[last.src].resource_id \in DOMAIN products_store
    /\ ~can_be_cloned(objs[last.src])
    /\ Len(prototypes) = 1
    /\ prototypes[1].obj = last.src

\* C23: a clone request that succeeds gives the clone the tags copied from
\* the prototype's resource with the custom tags written over them, leaves
\* the tags of the prototype's resource as they were, and puts the clone in
\* the resource store under its own resource id, where get finds it; a
\* request that fails leaves the resource store as it was.
C23_CloneTaggedAndStored ==
    /\ []((last.op = "api_clone_prototype" /\ last.outcome = "ok") =>
            /\ get(objs[last.ret].resource_id).outcome = "ok"
            /\ get(objs[last.ret].resource_id).obj = last.ret)
    /\ [][ \A p \in PidInputs : \A b \in {p, UnknownId}, r \in StoreRequests :
              api_clone_prototype(p, b, r[1], r[2]) =>
                 IF last'.outcome = "ok"
                 THEN LET c == last'.ret
                          src == last'.src
                          t == r[2]
                      IN /\ DOMAIN objs'[c].tags = (DOMAIN objs[src].tags) \cup (DOMAIN t)
                         /\ \A k \in DOMAIN t : objs'[c].tags[k] = t[k]
                         /\ \A k \in (DOMAIN objs[src].tags) \ (DOMAIN t) :
                               objs'[c].tags[k] = objs[src].tags[k]
                         /\ objs'[src].tags = objs[src].tags
                         /\ DOMAIN products_store' =
                               (DOMAIN products_store) \cup {objs'[c].resource_id}
                         /\ products_store'[objs'[c].resource_id] = c
                         /\ \A x \in DOMAIN products_store :
                               products_store'[x] = products_store[x]
                 ELSE /\ products_store' = products_store
                      /\ _store' = _store
                      /\ objs' = objs ]_vars

\* a stored clone whose custom tag replaced the value its prototype has
\* under the same key
C23_Witness ==
    /\ last.op = "api_clone_prototype" /\ last.outcome = "ok"
    /\ objs[last.src].tags = [k \in TagKeys |-> "dev"]
    /\ objs[last.ret].tags = [k \in TagKeys |-> "prod"]
    /\ get(objs[last.ret].resource_id).obj = last.ret

\* C24: constructing PrototypeManager again gives the instance there
\* already is and leaves its contents as they were, and a registered
\* prototype stays registered under its id, for the same resource and with
\* metadata, whatever else is called and however much time passes, until
\* remove_prototype is called on its id or clear_all is called.
C24_SingleLongLivedRegistry ==
    [][ /\ Did("PrototypeManager") =>
              /\ last'.ret = manager_class._instance
              /\ manager_class'._instance = manager_class._instance
              /\ prototypes' = prototypes
              /\ metadata' = metadata
              /\ categories' = categories
        /\ \A p \in RegisteredIds :
              (\/ p \notin RegisteredIds'
               \/ p \notin MetadataIds'
               \/ get_prototype(p)' = 0
               \/ EntryIn(prototypes', p) # EntryIn(prototypes, p)) =>
                  \/ Did("clear_all")
                  \/ Did("remove_prototype") /\ last'.pid = p ]_vars

\* the manager was constructed again, at a later time, while it holds a
\* prototype that was registered at the start and cloned since, another
\* prototype having been removed
C24_Witness ==
    /\ last.op = "PrototypeManager"
    /\ now > 0
    /\ Len(prototypes) = 1
    /\ Cardinality(DOMAIN returned) = 2
    /\ metadata[1].created_at = 0
    /\ metadata[1].usage_count > 0
    /\ get_prototype(metadata[1].pid) # 0

\* C25: the clone of an S3 bucket, made by clone() or by clone_prototype,
\* starts without objects and has a bucket_name that differs from its
\* source's and from that of every other clone of its source; a clone
\* clone_prototype returns has its display name as bucket_name.
C25_BucketNameUnique ==
    [][ ((Did("clone") \/ Did("clone_prototype")) /\ last'.outcome = "ok"
           /\ objs[last'.src].kind = "S3Storage") =>
          LET c == last'.ret IN
          /\ objs'[c].objects = {}
          /\ \A x \in Relatives(objs', c) : objs'[x].bucket_name # objs'[c].bucket_name
          /\ Did("clone_prototype") => objs'[c].bucket_name = objs'[c].name ]_vars

\* the clones taken so far of the resources that are registered now
ClonesOfRegistered ==
    {c \in Objs : \E p \in RegisteredIds :
        objs[c].cloned_from = objs[ProtoObj(p)].prototype_id}

\* C26: total_clones_created of get_statistics is the number of clones
\* taken of the resources of the prototypes registered now, each clone
\* counted once, also when one resource is registered under several ids.
C26_TotalClonesCountedOnce ==
    last.op = "get_statistics" =>
        last.ret.total_clones_created = Cardinality(ClonesOfRegistered)

\* C27: deleting a resource from the resource store leaves the registry and
\* the resource as they were, and clone_prototype ends for every registered
\* id as it would have before; clone_prototype on a registered id returns
\* no clone when the resource, in whatever status it was registered, has
\* the status deleting or error at the time of the call.
C27_RegistryHoldsLiveResource ==
    /\ [][ Did("delete") =>
              /\ prototypes' = prototypes
              /\ metadata' = metadata
              /\ categories' = categories
              /\ objs' = objs
              /\ \A p \in RegisteredIds : CloneOutcome(p)' = CloneOutcome(p) ]_vars
    /\ []((last.op = "clone_prototype" /\ last.pid \in RegisteredIds
             /\ objs[ProtoObj(last.pid)].status \in {"deleting", "error"}) =>
               (last.outcome = "None" /\ last.ret = 0))

\* clone_prototype returned no clone for a prototype it had cloned before:
\* the resource, registered from the store while it could be cloned, has
\* since left the store and gone into the status error
C27_Witness ==
    /\ last.op = "clone_prototype" /\ last.outcome = "None"
    /\ last.pid \in RegisteredIds
    /\ returned[last.pid] = 1
    /\ objs[last.src].status = "error"
    /\ objs[last.src].resource_id \notin (DOMAIN products_store) \cup StoreIds

\* the sum of the counts of a list of per-category statistics
RECURSIVE SumOfCounts(_)
SumOfCounts(stats) ==
    IF stats = <<>> THEN 0 ELSE Head(stats).count + SumOfCounts(Tail(stats))

\* C28: remove_prototype leaves the list of categories as it is, a category
\* disappears in a clear_all step only, get_statistics reports every
\* category of get_categories, one without registered prototype with count 0
\* and total_clones 0, and total_prototypes is the sum of the counts.
C28_CategoriesStay ==
    /\ [][ /\ Did("remove_prototype") => get_categories' = get_categories
           /\ (\E c \in CategoryNames : c \notin CategoryNames') => Did("clear_all") ]_vars
    /\ [](Statistics.total_prototypes = SumOfCounts(Statistics.categories))
    /\ [](last.op = "get_statistics" =>
            /\ last.ret.total_prototypes = SumOfCounts(last.ret.categories)
            /\ [i \in 1..Len(last.ret.categories) |-> last.ret.categories[i].category]
                  = get_categories
            /\ \A i \in 1..Len(last.ret.categories) :
                  (\A p \in RegisteredIds :
                      MetaOf(p).category # last.ret.categories[i].category) =>
                     /\ last.ret.categories[i].count = 0
                     /\ last.ret.categories[i].total_clones = 0)

\* statistics read after the only prototype of a category, one that had
\* been cloned, was removed, while another category still has a prototype
C28_Witness ==
    /\ last.op = "get_statistics"
    /\ Len(last.ret.categories) = 2
    /\ last.ret.total_prototypes = 1
    /\ \E i \in 1..2 :
          /\ last.ret.categories[i].count = 0
          /\ last.ret.categories[i].category \in CategoryNames
    /\ \E p \in (DOMAIN returned) \ RegisteredIds : returned[p] > 0

\* C29: when clone() raises for the resource of a registered prototype that
\* can be cloned, clone_prototype ends with the exception and the clone
\* request with an error response, and the resource (its clone_count and
\* last_cloned_at included), the metadata (usage_count included), the
\* registry and the resource store are as before the call.
C29_FailedCloneChangesNothing ==
    [][ \A p \in RegisteredIds :
          (/\ can_be_cloned(objs[ProtoObj(p)])
           /\ CloneRaises(objs[ProtoObj(p)])
           /\ \/ clone_prototype(p, "")
              \/ \E r \in StoreRequests : api_clone_prototype(p, p, r[1], r[2])) =>
             /\ last'.outcome \in {"AttributeError", "HTTPException"}
             /\ last'.op = "api_clone_prototype" => last'.http = 500
             /\ last'.ret = 0
             /\ objs' = objs
             /\ metadata' = metadata
             /\ prototypes' = prototypes
             /\ categories' = categories
             /\ products_store' = products_store
             /\ _store' = _store ]_vars

\* a clone request was answered with 500 for a registered prototype whose
\* counters stand at 0
C29_Witness ==
    /\ last.op = "api_clone_prototype" /\ last.http = 500
    /\ last.pid \in RegisteredIds
    /\ CloneRaises(objs[last.src])
    /\ objs[last.src].clone_count = 0
    /\ objs[last.src].last_cloned_at = None
    /\ MetaOf(last.pid).usage_count = 0
    /\ DOMAIN products_store = {}

\* the value get(id) returns is among the values list() returns
Listed(id) ==
    \E i \in 1..Len(list) :
        list[i].id = id /\ list[i].dto = get(id).dto /\ list[i].obj = get(id).obj

\* C30: whatever get(id) returns is also in list(), so a clone stored by a
\* clone request and a product saved by save_product are in list() until
\* they are deleted, and after delete(id) get(id) fails and list() has no
\* value for id.
C30_GetImpliesListed ==
    /\ \A id \in ResourceIds : get(id).outcome = "ok" => Listed(id)
    /\ (last.op = "delete" /\ last.outcome = "ok") =>
          /\ get(last.args[1]).outcome = "KeyError"
          /\ \A i \in 1..Len(list) : list[i].id # last.args[1]
====
